---- MODULE Spec2Model ----
(***************************************************************************)
(* A model of the grading, wrong-answer tracking and test assembly code of *)
(* the ITOP quiz backend (src/app/services/answer_comparison.py and        *)
(* src/app/routers/api.py).                                                *)
(*                                                                         *)
(* A Python str is a sequence of code points; a code point is written as a *)
(* one-character TLA+ string, or as "U+XXXX" for a non-ASCII code point.   *)
(* A Python float score is kept as the exact fraction [num, den].          *)
(***************************************************************************)
EXTENDS Integers, Sequences, FiniteSets, TLC

(***************************************************************************)
(* Code points                                                             *)
(***************************************************************************)
UpperSeq == << "A","B","C","D","E","F","G","H","I","J","K","L","M",
               "N","O","P","Q","R","S","T","U","V","W","X","Y","Z" >>

LowerSeq == << "a","b","c","d","e","f","g","h","i","j","k","l","m",
               "n","o","p","q","r","s","t","u","v","w","x","y","z" >>

AsciiUpper == { UpperSeq[i] : i \in DOMAIN UpperSeq }

Digits == { "0","1","2","3","4","5","6","7","8","9" }

\* string.punctuation (U+0060 is the grave accent)
Punctuation == { "!","\"","#","$","%","&","'","(",")","*","+",",","-",".","/",
                 ":",";","<","=",">","?","@","[","\\","]","^","_","U+0060","{","|","}","~" }

\* the characters str.strip(), str.split() and the regex class \s remove
Whitespace == { " ", "\t", "\n", "\r", "\f" }

\* U+FF0C FULLWIDTH COMMA, the second separator of the list strategy
FullwidthComma == "U+FF0C"

\* the Hangul syllables of the two format-constraint phrases, and one more
Yeong == "U+C601"
Mun == "U+BB38"
Yak == "U+C57D"
Eo == "U+C5B4"
Ga == "U+AC00"

(***************************************************************************)
(* str methods                                                             *)
(***************************************************************************)
LowerChar(c) ==
    IF c \in AsciiUpper
    THEN LowerSeq[CHOOSE i \in DOMAIN UpperSeq : UpperSeq[i] = c]
    ELSE c

\* str.lower()
Lower(s) == [i \in 1..Len(s) |-> LowerChar(s[i])]

RECURSIVE LStrip(_)
LStrip(s) ==
    IF s # << >> /\ Head(s) \in Whitespace THEN LStrip(Tail(s)) ELSE s

RECURSIVE RStrip(_)
RStrip(s) ==
    IF s # << >> /\ s[Len(s)] \in Whitespace
    THEN RStrip(SubSeq(s, 1, Len(s) - 1))
    ELSE s

\* str.strip()
Strip(s) == RStrip(LStrip(s))

\* str.translate(...): delete every character of string.punctuation
RemovePunctuation(s) == SelectSeq(s, LAMBDA c : c \notin Punctuation)

\* re.sub(r'\s+', ' ', s): every maximal run of whitespace becomes one space
RECURSIVE CollapseWhitespace(_)
CollapseWhitespace(s) ==
    IF s = << >> THEN << >>
    ELSE IF Head(s) \in Whitespace
         THEN << " " >> \o CollapseWhitespace(LStrip(s))
         ELSE << Head(s) >> \o CollapseWhitespace(Tail(s))

\* re.split(r'[...]', s) and str.split(sep) for one-character separators:
\* the items between the separators, empty items kept
RECURSIVE SplitOn(_, _)
SplitOn(s, seps) ==
    IF \A i \in 1..Len(s) : s[i] \notin seps
    THEN << s >>
    ELSE LET k == CHOOSE i \in 1..Len(s) :
                      s[i] \in seps /\ \A j \in 1..(i - 1) : s[j] \notin seps
         IN  << SubSeq(s, 1, k - 1) >> \o SplitOn(SubSeq(s, k + 1, Len(s)), seps)

\* str.split(): the words between runs of whitespace, no empty word
SplitWords(s) == SelectSeq(SplitOn(s, Whitespace), LAMBDA w : w # << >>)

\* sub in s
Contains(s, sub) ==
    \E i \in 0..(Len(s) - Len(sub)) : SubSeq(s, i + 1, i + Len(sub)) = sub

\* re.search(r'[A-Z]{2,}', s)
HasUpperRun(s) ==
    \E i \in 1..(Len(s) - 1) : s[i] \in AsciiUpper /\ s[i + 1] \in AsciiUpper

Range(s) == { s[i] : i \in DOMAIN s }

(***************************************************************************)
(* preprocess_text                                                         *)
(***************************************************************************)
preprocess_text(text) ==
    IF text = << >> THEN << >>
    ELSE Strip(CollapseWhitespace(RemovePunctuation(Lower(text))))

(***************************************************************************)
(* difflib.SequenceMatcher(None, a, b).ratio(), for sequences shorter than *)
(* the 200 elements at which the autojunk heuristic starts                 *)
(***************************************************************************)
\* the length of the common run of a[i..ahi] and b[j..bhi]
RECURSIVE RunLength(_, _, _, _, _, _)
RunLength(a, i, ahi, b, j, bhi) ==
    IF i <= ahi /\ j <= bhi /\ a[i] = b[j]
    THEN 1 + RunLength(a, i + 1, ahi, b, j + 1, bhi)
    ELSE 0

\* find_longest_match: the longest block, of those the one that starts
\* earliest in a, and of those the one that starts earliest in b
LongestMatch(a, alo, ahi, b, blo, bhi) ==
    LET Blocks == { << i, j, RunLength(a, i, ahi, b, j, bhi) >> :
                        i \in alo..ahi, j \in blo..bhi }
        Better(x, y) == \/ x[3] > y[3]
                        \/ x[3] = y[3] /\ x[1] < y[1]
                        \/ x[3] = y[3] /\ x[1] = y[1] /\ x[2] <= y[2]
    IN  IF Blocks = {} THEN << alo, blo, 0 >>
        ELSE CHOOSE x \in Blocks : \A y \in Blocks : Better(x, y)

\* get_matching_blocks: the total size of the matching blocks
RECURSIVE MatchingSize(_, _, _, _, _, _)
MatchingSize(a, alo, ahi, b, blo, bhi) ==
    LET m == LongestMatch(a, alo, ahi, b, blo, bhi)
    IN  IF m[3] = 0 THEN 0
        ELSE m[3]
             + MatchingSize(a, alo, m[1] - 1, b, blo, m[2] - 1)
             + MatchingSize(a, m[1] + m[3], ahi, b, m[2] + m[3], bhi)

\* ratio(): 2.0 * matches / (len(a) + len(b)), 1.0 for two empty sequences
Ratio(a, b) ==
    IF Len(a) + Len(b) = 0
    THEN [num |-> 1, den |-> 1]
    ELSE [num |-> 2 * MatchingSize(a, 1, Len(a), b, 1, Len(b)),
          den |-> Len(a) + Len(b)]

(***************************************************************************)
(* Values of answer_comparison.evaluate_answer                             *)
(***************************************************************************)
\* a value of a dict key: absent, None, or a str
Missing == [tag |-> "missing", s |-> << >>]
Null == [tag |-> "null", s |-> << >>]
Str(s) == [tag |-> "str", s |-> s]

\* question_data: None or {} (present = FALSE), or a dict with these keys
NoData ==
    [present |-> FALSE, answer |-> Missing, question |-> Missing, example |-> Missing]
Data(answer, question, example) ==
    [present |-> TRUE, answer |-> answer, question |-> question, example |-> example]

Frac(n, d) == [num |-> n, den |-> d]
FracEq(x, y) == x.num * y.den = y.num * x.den
FracGeq(x, y) == x.num * y.den >= y.num * x.den

\* the returned dict (kind "verdict") or the exception that leaves the call
\* (kind "raise"); by names the strategy that returned it
Verdict(is_correct, score, feedback, by) ==
    [kind |-> "verdict", is_correct |-> is_correct, score |-> score,
     feedback |-> feedback, by |-> by]
Raised(by) ==
    [kind |-> "raise", is_correct |-> FALSE, score |-> Frac(0, 1),
     feedback |-> "exception", by |-> by]
NoVerdict ==
    [kind |-> "none", is_correct |-> FALSE, score |-> Frac(0, 1),
     feedback |-> "", by |-> ""]

(***************************************************************************)
(* The strategies of evaluate_answer                                       *)
(***************************************************************************)
\* not user_answer or not question_data or "answer" not in question_data
InvalidInput(ua, qd) ==
    ua = << >> \/ ~qd.present \/ qd.answer.tag = "missing"

\* question_data.get("answer", "").strip() raises AttributeError on None
CorrectAnswer(qd) == Strip(qd.answer.s)

\* question_data.get("question", "")
QuestionText(qd) == qd.question.s

\* question_data.get("example", None), and whether `if example:` takes it
ExampleText(qd) == qd.example.s
HasExample(qd) == qd.example.tag = "str" /\ qd.example.s # << >>

\* step 1: user_answer.strip() == correct_answer
ExactMatches(ua, correct) == Strip(ua) = correct

\* re.match(r'(\d+)\.\s*(.*)', option.strip()), then option_text.strip()
ParseOption(option) ==
    LET o == Strip(option)
        n == Cardinality({ i \in 1..Len(o) : \A j \in 1..i : o[j] \in Digits })
    IN  IF n >= 1 /\ Len(o) > n /\ o[n + 1] = "."
        THEN [ok |-> TRUE, num |-> SubSeq(o, 1, n),
              text |-> Strip(SubSeq(o, n + 2, Len(o)))]
        ELSE [ok |-> FALSE, num |-> << >>, text |-> << >>]

\* the options of example.split('\n') that the regex matches
Options(example) ==
    LET lines == SplitOn(example, {"\n"})
    IN  { ParseOption(lines[i]) : i \in DOMAIN lines } \ { ParseOption(<< >>) }

\* the test both branches of step 2 apply to the user's answer
\* a variant of the test below that knows the option by its number only
UserNamesOptionNumberOnly(ua, opt) == Strip(ua) = opt.num
UserNamesOption(ua, opt) ==
    Strip(ua) = opt.num \/ preprocess_text(ua) = preprocess_text(opt.text)

\* step 2: some option is the stored answer (by number, else by text) and
\* the user named that option
OptionMatches(ua, correct, example) ==
    \E opt \in Options(example) :
        /\ opt.ok
        /\ \/ correct = opt.num
           \/ preprocess_text(correct) = preprocess_text(opt.text)
        /\ UserNamesOption(ua, opt)

\* "영문 약어" and "영문약어"
AbbreviationPhrase == << Yeong, Mun, " ", Yak, Eo >>
AbbreviationPhraseTight == << Yeong, Mun, Yak, Eo >>

\* step 3, the outer condition: the question asks for an abbreviation and
\* the stored answer has one
\* a variant of the condition below that knows the phrase without its space only
AbbreviationRequiredTightOnly(question, correct) ==
    Contains(question, AbbreviationPhraseTight) /\ HasUpperRun(correct)
AbbreviationRequired(question, correct) ==
    /\ (Contains(question, AbbreviationPhrase)
           \/ Contains(question, AbbreviationPhraseTight))
    /\ HasUpperRun(correct)

\* the score of the veto verdict, 0.1
VetoScoreNum == 1
VetoScoreDen == 10

\* step 4: the answer is a list, and the user's list equals it item by item
IsListAnswer(correct) == "," \in Range(correct) \/ FullwidthComma \in Range(correct)
Items(s) ==
    LET parts == SplitOn(s, {",", FullwidthComma})
    IN  [i \in DOMAIN parts |-> Strip(parts[i])]
SameItems(correct_items, user_items) ==
    /\ Len(correct_items) = Len(user_items)
    /\ \A i \in DOMAIN correct_items :
           preprocess_text(correct_items[i]) = preprocess_text(user_items[i])
ListMatches(ua, correct) ==
    IsListAnswer(correct) /\ SameItems(Items(correct), Items(ua))

\* step 6: 0.4 * similarity + 0.6 * keyword_match_ratio, accepted from 0.7,
\* "partially correct" from 0.5
SimilarityWeight == 4
KeywordWeight == 6
WeightScale == 10
AcceptNum == 7
PartialNum == 5

KeywordMatchRatio(ua, correct) ==
    LET correct_words == SplitWords(preprocess_text(correct))
        user_words == SplitWords(preprocess_text(ua))
        common_words == Range(correct_words) \cap Range(user_words)
    IN  IF correct_words # << >>
        THEN Frac(Cardinality(common_words), Len(correct_words))
        ELSE Frac(0, 1)

FinalScore(ua, correct) ==
    LET similarity == Ratio(preprocess_text(ua), preprocess_text(correct))
        ratio == KeywordMatchRatio(ua, correct)
    IN  Frac(SimilarityWeight * similarity.num * ratio.den
                 + KeywordWeight * ratio.num * similarity.den,
             WeightScale * similarity.den * ratio.den)

LexicalVerdict(ua, correct) ==
    LET final_score == FinalScore(ua, correct)
        is_correct == FracGeq(final_score, Frac(AcceptNum, WeightScale))
    IN  Verdict(is_correct, final_score,
                IF is_correct THEN "correct"
                ELSE IF FracGeq(final_score, Frac(PartialNum, WeightScale))
                     THEN "partial" ELSE "wrong",
                "lexical")

\* step 5: what the remote grading call can do. The service's reply is any
\* JSON: a score on its 0-100 scale (not checked by the code) and any
\* is_correct, or text json.loads or float() reject
RemoteScores == { -5, 0, 69, 70, 100, 150 }
RemoteOutcomes ==
    { [kind |-> "transport_error", score |-> 0, is_correct |-> FALSE],
      [kind |-> "unparsable", score |-> 0, is_correct |-> FALSE] }
    \cup { [kind |-> "reply", score |-> sc, is_correct |-> c] :
               sc \in RemoteScores, c \in BOOLEAN }

\* float(result_json.get("score", 0)) / 100
RemoteScale == 100

\* the verdict step 5 returns, or NoVerdict when the except clause swallowed
\* a failure and the function goes on to step 6
\* a variant of the result below that lets a parse failure out of the try block
RemoteResultPropagating(outcome) ==
    IF outcome.kind = "reply"
    THEN Verdict(outcome.is_correct, Frac(outcome.score, RemoteScale),
                 "remote", "remote")
    ELSE IF outcome.kind = "unparsable" THEN Raised("remote") ELSE NoVerdict
RemoteResult(outcome) ==
    IF outcome.kind = "reply"
    THEN Verdict(outcome.is_correct, Frac(outcome.score, RemoteScale),
                 "remote", "remote")
    ELSE NoVerdict

(***************************************************************************)
(* State                                                                   *)
(***************************************************************************)
VARIABLES
    user_answer,     \* evaluate_answer: the user_answer argument
    question_data,   \* evaluate_answer: the question_data argument
    use_advanced,    \* evaluate_answer: the use_advanced argument
    step,            \* evaluate_answer: the strategy about to run, or "done"
    verdict,         \* evaluate_answer: what the call returned or raised
    remote_calls,    \* evaluate_answer: calls of openai.chat.completions.create
    remote_outcome,  \* evaluate_answer: how the last such call ended
    lexical_runs,    \* evaluate_answer: runs of step 6
    tables,          \* the nine question tables: category -> set of rows
    user_wrong_answers,  \* the rows of table user_wrong_answers
    next_id,         \* the AUTO_INCREMENT counter of user_wrong_answers.id
    requests,        \* submit_test: the state of each request being served
    recorded,        \* history: per (user, question), the misses committed
    config,          \* create_custom_test: the TestConfigRequest of the call
    custom_test,     \* create_custom_test: the list returned, once returned
    personal,        \* create_personalized_test: arguments, locals, response
    lookup,          \* the read handlers: the request and its response
    extraction,      \* the keyword extraction adapter: one call
    work             \* update_work_status: the users row, the clock, the calls

grade_vars ==
    << user_answer, question_data, use_advanced, step, verdict,
       remote_calls, remote_outcome, lexical_runs >>

submit_vars == << user_wrong_answers, next_id, requests, recorded >>

assembly_vars == << config, custom_test >>

\* the handlers that only query the database
query_vars == << personal, lookup >>

\* the services outside /api
service_vars == << extraction, work >>

vars ==
    << grade_vars, tables, submit_vars, assembly_vars, query_vars,
       service_vars >>

(***************************************************************************)
(* evaluate_answer, one action per strategy of the cascade                 *)
(***************************************************************************)
Return(v) ==
    /\ verdict' = v
    /\ step' = "done"

Continue(next) ==
    /\ step' = next
    /\ UNCHANGED verdict

\* lines 189-201: input validation, then the three reads of question_data
Validate ==
    /\ step = "validate"
    /\ IF InvalidInput(user_answer, question_data)
       THEN Return(Verdict(FALSE, Frac(0, 1), "no_data", "validate"))
       ELSE IF question_data.answer.tag = "null"
            THEN Return(Raised("validate"))
            ELSE Continue("exact")
    /\ UNCHANGED << user_answer, question_data, use_advanced,
                    remote_calls, remote_outcome, lexical_runs >>
    /\ UNCHANGED << tables, submit_vars, assembly_vars, query_vars,
                 service_vars >>

\* lines 203-212
ExactMatch ==
    /\ step = "exact"
    /\ IF ExactMatches(user_answer, CorrectAnswer(question_data))
       THEN Return(Verdict(TRUE, Frac(1, 1), "correct", "exact"))
       ELSE Continue("options")
    /\ UNCHANGED << user_answer, question_data, use_advanced,
                    remote_calls, remote_outcome, lexical_runs >>
    /\ UNCHANGED << tables, submit_vars, assembly_vars, query_vars,
                 service_vars >>

\* lines 214-249
OptionMatch ==
    /\ step = "options"
    /\ IF /\ HasExample(question_data)
          /\ OptionMatches(user_answer, CorrectAnswer(question_data),
                           ExampleText(question_data))
       THEN Return(Verdict(TRUE, Frac(1, 1), "correct", "options"))
       ELSE Continue("veto")
    /\ UNCHANGED << user_answer, question_data, use_advanced,
                    remote_calls, remote_outcome, lexical_runs >>
    /\ UNCHANGED << tables, submit_vars, assembly_vars, query_vars,
                 service_vars >>

\* lines 251-264; `"..." in question` raises TypeError when question is None
FormatVeto ==
    /\ step = "veto"
    /\ IF question_data.question.tag = "null"
       THEN Return(Raised("veto"))
       ELSE IF /\ AbbreviationRequired(QuestionText(question_data),
                                       CorrectAnswer(question_data))
               /\ ~HasUpperRun(user_answer)
            THEN Return(Verdict(FALSE, Frac(VetoScoreNum, VetoScoreDen),
                                "need_abbreviation", "veto"))
            ELSE Continue("list")
    /\ UNCHANGED << user_answer, question_data, use_advanced,
                    remote_calls, remote_outcome, lexical_runs >>
    /\ UNCHANGED << tables, submit_vars, assembly_vars, query_vars,
                 service_vars >>

\* line 286, `if use_advanced:`: the stage that follows the four structural
\* strategies
\* a variant that calls the remote grader whatever use_advanced is
AfterStructuralAlwaysRemote(advanced) == "remote"
AfterStructural(advanced) == IF advanced THEN "remote" ELSE "lexical"

\* lines 266-287
ListMatch ==
    /\ step = "list"
    /\ IF ListMatches(user_answer, CorrectAnswer(question_data))
       THEN Return(Verdict(TRUE, Frac(1, 1), "correct", "list"))
       ELSE Continue(AfterStructural(use_advanced))
    /\ UNCHANGED << user_answer, question_data, use_advanced,
                    remote_calls, remote_outcome, lexical_runs >>
    /\ UNCHANGED << tables, submit_vars, assembly_vars, query_vars,
                 service_vars >>

\* lines 286-362
RemoteGrade ==
    /\ step = "remote"
    /\ \E outcome \in RemoteOutcomes :
           /\ remote_outcome' = outcome.kind
           /\ IF RemoteResult(outcome) = NoVerdict
              THEN Continue("lexical")
              ELSE Return(RemoteResult(outcome))
    /\ remote_calls' = remote_calls + 1
    /\ UNCHANGED << user_answer, question_data, use_advanced, lexical_runs >>
    /\ UNCHANGED << tables, submit_vars, assembly_vars, query_vars,
                 service_vars >>

\* lines 364-402
LexicalFallback ==
    /\ step = "lexical"
    /\ Return(LexicalVerdict(user_answer, CorrectAnswer(question_data)))
    /\ lexical_runs' = lexical_runs + 1
    /\ UNCHANGED << user_answer, question_data, use_advanced,
                    remote_calls, remote_outcome >>
    /\ UNCHANGED << tables, submit_vars, assembly_vars, query_vars,
                 service_vars >>

(***************************************************************************)
(* The arguments evaluate_answer is called with                            *)
(***************************************************************************)
\* the answer column of a question: tokens, padded, a number, lists, repeated words, punctuation only, Hangul
StoredAnswers ==
    { << "T", "C", "P" >>,
      << " ", "T", "C", "P", " " >>,
      << "2" >>,
      << "S", "N", "M", "P" >>,
      << "A", ",", " ", "B", ",", " ", "C" >>,
      << "A", FullwidthComma, "B" >>,
      << "g", "o", " ", "g", "o", " ", "g", "o" >>,
      << "." >>,
      << "A", "A" >>,
      << "a", ",", "A" >>,
      << Ga >> }

\* the question column: plain, and with either format-constraint phrase
QuestionTexts ==
    { << "q", "?" >>,
      << Yeong, Mun, " ", Yak, Eo, " ", "q" >>,
      << Yeong, Mun, Yak, Eo >> }

\* the example column: empty, and enumerated-option blocks
ExampleTexts ==
    { << >>,
      << "1", ".", " ", "T", "C", "P", "\n", "2", ".", " ", "S", "N", "M", "P" >>,
      << "1", ".", " ", "2", "\n", "2", ".", "S", "N", "M", "P", "\n", "x" >>,
      << "3", ".", " ", "A", ",", " ", "B", ",", " ", "C", "\n", " ", "4", ".", " ", " ", "A", "A", " " >> }

\* user answers: empty, blank, exact, other case, numbers, option texts, lists, partial
ChosenUserAnswers ==
    { << >>,
      << " " >>,
      << "T", "C", "P" >>,
      << "t", "c", "p" >>,
      << " ", "T", "C", "P" >>,
      << "2" >>,
      << "1" >>,
      << "3" >>,
      << "s", "n", "m", "p" >>,
      << "S", "n", "M", "p" >>,
      << "A", ",", "B", ",", "C" >>,
      << "B", ",", " ", "A", ",", " ", "C" >>,
      << "A", ",", " ", "B" >>,
      << "a", ",", " ", "b", ",", " ", "c" >>,
      << "A", FullwidthComma, "B" >>,
      << "g", "o", " ", "g", "o", " ", "g", "o" >>,
      << "g", "o" >>,
      << "!" >>,
      << Ga >>,
      << "a", "a" >> }

\* every str over GenAlphabet of at most MaxGenLen characters
GenAlphabet == { "A", "a", ",", " " }
MaxGenLen == 2
RECURSIVE StringsUpTo(_)
StringsUpTo(n) ==
    IF n = 0 THEN { << >> }
    ELSE LET shorter == StringsUpTo(n - 1)
         IN  shorter \cup { Append(s, c) : s \in shorter, c \in GenAlphabet }

UserAnswers == ChosenUserAnswers \cup StringsUpTo(MaxGenLen)

AnswerValues == { Missing, Null } \cup { Str(s) : s \in StoredAnswers }
QuestionValues == { Missing, Null } \cup { Str(s) : s \in QuestionTexts }
ExampleValues == { Null } \cup { Str(s) : s \in ExampleTexts }

QuestionDatas ==
    { NoData } \cup
    { Data(a, q, e) : a \in AnswerValues, q \in QuestionValues, e \in ExampleValues }

(***************************************************************************)
(* The question tables (models.py) and their lookup by id                  *)
(***************************************************************************)
Os == << "o", "s" >>
Db == << "d", "b" >>
Network == << "n", "e", "t", "w", "o", "r", "k" >>
Algorithm == << "a", "l", "g", "o", "r", "i", "t", "h", "m" >>
Program == << "p", "r", "o", "g", "r", "a", "m" >>
AppTest == << "a", "p", "p", "_", "t", "e", "s", "t" >>
AppDefect == << "a", "p", "p", "_", "d", "e", "f", "e", "c", "t" >>
BaseSql == << "b", "a", "s", "e", "_", "s", "q", "l" >>
HardSql == << "h", "a", "r", "d", "_", "s", "q", "l" >>

\* the keys of QUESTION_TYPE_MAPPING, in the order of the dict
QUESTION_TYPE_MAPPING ==
    << Os, Db, Network, Algorithm, Program, AppTest, AppDefect, BaseSql, HardSql >>

CategoryNames == Range(QUESTION_TYPE_MAPPING)

\* a row of a question table
Question(id, answer, keywords) ==
    [id |-> id, answer |-> answer, keywords |-> keywords]

\* db.query(model).filter(model.id == question_id).first()
RowsById(category, question_id) ==
    { q \in tables[category] : q.id = question_id }

\* question_id.split('-')[0] if '-' in question_id else None
IdPrefix(question_id) ==
    IF "-" \in Range(question_id)
    THEN SplitOn(question_id, {"-"})[1]
    ELSE << >>

\* the first category of QUESTION_TYPE_MAPPING whose table has the id
ScanHits(question_id) ==
    { k \in DOMAIN QUESTION_TYPE_MAPPING :
          RowsById(QUESTION_TYPE_MAPPING[k], question_id) # {} }

NotFound == [found |-> FALSE, category |-> << >>, row |-> Question(<< >>, << >>, << >>)]
Found(category, row) == [found |-> TRUE, category |-> category, row |-> row]

\* submit_test lines 542-556: the table the prefix names when it names one,
\* else a scan of every table
FindQuestion(question_id) ==
    LET category == IdPrefix(question_id)
    IN  IF category # << >> /\ category \in CategoryNames
        THEN IF RowsById(category, question_id) = {} THEN NotFound
             ELSE Found(category,
                        CHOOSE q \in RowsById(category, question_id) : TRUE)
        ELSE IF ScanHits(question_id) = {} THEN NotFound
             ELSE LET k == CHOOSE h \in ScanHits(question_id) :
                               \A g \in ScanHits(question_id) : h <= g
                      c == QUESTION_TYPE_MAPPING[k]
                  IN  Found(c, CHOOSE q \in RowsById(c, question_id) : TRUE)

(***************************************************************************)
(* submit_test                                                             *)
(***************************************************************************)
\* the rows of table users; no operation of the model adds or deletes a user
Users == { "u1" }

\* submission.user_id: None, or a str
NoUser == "None"

\* line 571, with user_answer already stripped by line 537
IsCorrect(user_answer_, question) == Lower(user_answer_) = Lower(question.answer)

\* the SELECT of lines 576-579
WrongRows(user, question_id) ==
    { w \in user_wrong_answers : w.user_id = user /\ w.question_id = question_id }

NoRow == [found |-> FALSE, id |-> 0, attempt_count |-> 0]
Loaded(w) == [found |-> TRUE, id |-> w.id, attempt_count |-> w.attempt_count]

\* lines 581-585: the UPDATE the session flushes for the loaded row
\* a variant of the UPDATE below without line 584
UpdatedRowsKeepAnswer(existing_wrong, user_answer_) ==
    { IF w.id = existing_wrong.id
      THEN [w EXCEPT !.attempt_count = existing_wrong.attempt_count + 1]
      ELSE w : w \in user_wrong_answers }
UpdatedRows(existing_wrong, user_answer_) ==
    { IF w.id = existing_wrong.id
      THEN [w EXCEPT !.attempt_count = existing_wrong.attempt_count + 1,
                     !.user_answer = user_answer_]
      ELSE w : w \in user_wrong_answers }

\* lines 587-596: the INSERT; attempt_count takes the column default, 1
DefaultAttemptCount == 1
InsertedRows(user, question_id, category, user_answer_, keywords) ==
    user_wrong_answers \cup
        { [id |-> next_id, user_id |-> user, question_id |-> question_id,
           question_category |-> category, user_answer |-> user_answer_,
           attempt_count |-> DefaultAttemptCount, keywords |-> keywords] }

\* an entry of result_details
Detail(question_id, is_correct, user_answer_, feedback) ==
    [question_id |-> question_id, is_correct |-> is_correct,
     points |-> IF is_correct THEN 5 ELSE 0,
     user_answer |-> user_answer_, feedback |-> feedback]

Idle ==
    [pc |-> "idle", answers |-> << >>, user_id |-> NoUser, user |-> NoUser,
     i |-> 1, correct_count |-> 0, result_details |-> << >>,
     existing_wrong |-> NoRow]

\* the answer the loop is at, and its fields as lines 536-537 read them
AnswerData(r) == requests[r].answers[requests[r].i]
StrippedAnswer(r) == Strip(AnswerData(r).answer)

\* the history of the misses committed for (user, question_id): how many,
\* and the answer of the last one as it was submitted
NoMisses == [count |-> 0, answer |-> << >>]
RecordMiss(user, question_id, answer) ==
    [recorded EXCEPT ![<< user, question_id >>] =
         [count |-> @.count + 1, answer |-> answer]]

(***************************************************************************)
(* The requests submit_test is called with                                 *)
(***************************************************************************)
OsOne == << "o", "s", "-", "1" >>
DbOne == << "d", "b", "-", "1" >>
OsNine == << "o", "s", "-", "9" >>
OsMissing == << "o", "s", "-", "4" >>
QSeven == << "q", "7" >>

\* the bank submit_test runs on: a question in the table of its prefix, one
\* whose answer is padded, an id without a prefix, and an id whose prefix
\* names another table than the one that holds it
SubmitTables ==
    [c \in CategoryNames |->
        IF c = Os THEN { Question(OsOne, << "T", "C", "P" >>, << "t", "c", "p" >>) }
        ELSE IF c = Db
        THEN { Question(DbOne, << " ", "S", "Q", "L" >>, << "s", "q", "l" >>),
               Question(OsNine, << "L", "S" >>, << >>) }
        ELSE IF c = Network THEN { Question(QSeven, << "I", "P" >>, << "i", "p" >>) }
        ELSE {}]

\* the entries of submission.answers: a correct answer, wrong answers (one
\* padded), a question found by the scan, an unknown id, and no question_id
SubmittedAnswers ==
    { [question_id |-> OsOne, answer |-> << "t", "c", "p" >>],
      [question_id |-> OsOne, answer |-> << " ", "x", " " >>],
      [question_id |-> OsOne, answer |-> << "y" >>],
      [question_id |-> QSeven, answer |-> << "y" >>],
      [question_id |-> OsMissing, answer |-> << "y" >>],
      [question_id |-> << >>, answer |-> << "y" >>] }

SubmittedUserIds == { NoUser, "u1", "u9" }

\* the requests served, and the most answers one of them carries
Requests == { "r1", "r2" }
MaxAnswers == 2

RecordedKeys == Users \X { a.question_id : a \in SubmittedAnswers }

(***************************************************************************)
(* submit_test, as the steps another request can come between: the answers *)
(* of the body are drawn as the loop reaches them (the loop reads nothing  *)
(* ahead), and a step ends where the handler next reads or commits rows of *)
(* user_wrong_answers                                                      *)
(***************************************************************************)
\* lines 524-532
SubmitBegin(r) ==
    /\ requests[r].pc = "idle"
    /\ \E uid \in SubmittedUserIds :
           requests' = [requests EXCEPT ![r] =
               [Idle EXCEPT !.pc = "loop",
                            !.user_id = uid,
                            !.user = IF uid # NoUser /\ uid \in Users
                                     THEN uid ELSE NoUser]]
    /\ UNCHANGED << user_wrong_answers, next_id, recorded >>
    /\ UNCHANGED << grade_vars, tables, assembly_vars, query_vars,
                 service_vars >>

\* the rows first() can return for the SELECT of lines 576-579: a query
\* without ORDER BY returns any of the rows that match
Selectable(user, question_id) ==
    IF WrongRows(user, question_id) = {} THEN { NoRow }
    ELSE { Loaded(w) : w \in WrongRows(user, question_id) }

\* line 574: the miss of a found question is stored for an identified user
\* a variant of the test below without `and user`
PersistsAnyUser(is_correct, user) == ~is_correct
Persists(is_correct, user) == ~is_correct /\ user # NoUser

\* lines 535-579 for the entry answer_data of the body, and lines 600-612
\* when the answer needs no row of user_wrong_answers
Grade(r, answer_data) ==
    LET question_id == answer_data.question_id
        user_answer_ == Strip(answer_data.answer)
        question == FindQuestion(question_id)
        is_correct == IsCorrect(user_answer_, question.row)
        with_answer == [requests EXCEPT ![r].answers = Append(@, answer_data)]
    IN  IF question_id = << >>
        THEN requests' = [with_answer EXCEPT ![r].i = @ + 1]
        ELSE IF ~question.found
        THEN requests' = [with_answer EXCEPT
                 ![r].i = @ + 1,
                 ![r].result_details =
                     Append(@, Detail(question_id, FALSE, user_answer_, "not_found"))]
        ELSE IF ~Persists(is_correct, requests[r].user)
        THEN requests' = [with_answer EXCEPT
                 ![r].i = @ + 1,
                 ![r].correct_count = IF is_correct THEN @ + 1 ELSE @,
                 ![r].result_details =
                     Append(@, Detail(question_id, is_correct, user_answer_,
                                      IF is_correct THEN "correct" ELSE "wrong"))]
        ELSE \E existing_wrong \in Selectable(requests[r].user, question_id) :
                 requests' = [with_answer EXCEPT
                     ![r].pc = "write",
                     ![r].existing_wrong = existing_wrong]

\* the loop of line 535 at the next answer of the body
SubmitGrade(r) ==
    /\ requests[r].pc = "loop"
    /\ requests[r].i <= MaxAnswers
    /\ \E answer_data \in SubmittedAnswers : Grade(r, answer_data)
    /\ UNCHANGED << user_wrong_answers, next_id, recorded >>
    /\ UNCHANGED << grade_vars, tables, assembly_vars, query_vars,
                 service_vars >>

\* lines 581-612: the UPDATE or INSERT, db.commit(), and the result detail
SubmitWrite(r) ==
    /\ requests[r].pc = "write"
    /\ LET question_id == AnswerData(r).question_id
           question == FindQuestion(question_id)
           user == requests[r].user
       IN  /\ IF requests[r].existing_wrong.found
              THEN /\ user_wrong_answers' =
                          UpdatedRows(requests[r].existing_wrong, StrippedAnswer(r))
                   /\ UNCHANGED next_id
              ELSE /\ user_wrong_answers' =
                          InsertedRows(user, question_id, question.category,
                                       StrippedAnswer(r), question.row.keywords)
                   /\ next_id' = next_id + 1
           /\ recorded' = RecordMiss(user, question_id, AnswerData(r).answer)
           /\ requests' = [requests EXCEPT
                  ![r].pc = "loop",
                  ![r].i = @ + 1,
                  ![r].existing_wrong = NoRow,
                  ![r].result_details =
                      Append(@, Detail(question_id, FALSE, StrippedAnswer(r), "wrong"))]
    /\ UNCHANGED << grade_vars, tables, assembly_vars, query_vars,
                 service_vars >>

\* lines 614-630
SubmitFinish(r) ==
    /\ requests[r].pc = "loop"
    /\ requests' = [requests EXCEPT ![r].pc = "done"]
    /\ UNCHANGED << user_wrong_answers, next_id, recorded >>
    /\ UNCHANGED << grade_vars, tables, assembly_vars, query_vars,
                 service_vars >>

\* what the finished request returns, lines 614-630
\* a variant that passes only above 60 points
ResponsePassAbove(r) ==
    LET total_score == requests[r].correct_count * 5
    IN  [correct_count |-> requests[r].correct_count,
         total_questions |-> Len(requests[r].answers),
         score |-> total_score,
         result_details |-> requests[r].result_details,
         is_passed |-> total_score > 60]
Response(r) ==
    LET total_score == requests[r].correct_count * 5
    IN  [correct_count |-> requests[r].correct_count,
         total_questions |-> Len(requests[r].answers),
         score |-> total_score,
         result_details |-> requests[r].result_details,
         is_passed |-> total_score >= 60]

\* a test long enough to be passed: the entries of the body in the order a
\* body lists them here, correct answers first, then wrong answers, then
\* unknown ids, then entries without question_id
LongAnswers ==
    << [question_id |-> OsOne, answer |-> << "t", "c", "p" >>],
       [question_id |-> OsOne, answer |-> << "y" >>],
       [question_id |-> OsMissing, answer |-> << "y" >>],
       [question_id |-> << >>, answer |-> << "y" >>] >>
MaxLong == 13

NextAnswers(r) ==
    LET answers == requests[r].answers
        from == IF answers = << >> THEN 1
                ELSE CHOOSE k \in DOMAIN LongAnswers :
                         LongAnswers[k] = answers[Len(answers)]
    IN  { LongAnswers[k] : k \in from..Len(LongAnswers) }

\* the loop of line 535 at the next answer of a long body
SubmitGradeLong(r) ==
    /\ requests[r].pc = "loop"
    /\ requests[r].i <= MaxLong
    /\ \E answer_data \in NextAnswers(r) : Grade(r, answer_data)
    /\ UNCHANGED << user_wrong_answers, next_id, recorded >>
    /\ UNCHANGED << grade_vars, tables, assembly_vars, query_vars,
                 service_vars >>

(***************************************************************************)
(* create_custom_test                                                      *)
(***************************************************************************)
Min(a, b) == IF a <= b THEN a ELSE b

\* a variant of the conversion below that rounds half up
IntOfProductRounded(count, ratio) ==
    (2 * count * ratio.num + ratio.den) \div (2 * ratio.den)

\* int(count * ratio) for the float ratio.num / ratio.den: truncation
\* towards zero
IntOfProduct(count, ratio) ==
    LET p == count * ratio.num
    IN  IF p >= 0 THEN p \div ratio.den ELSE -((-p) \div ratio.den)

\* a row of the returned list: the question and the table it came from
Picked(category, q) == [id |-> q.id, category |-> category]

\* a variant of the sampling below that gives no row when the table holds
\* fewer rows than asked
SamplesNoneOnShortage(category, count) ==
    IF count <= 0 \/ Cardinality(tables[category]) < count THEN { {} }
    ELSE { { Picked(category, q) : q \in chosen } :
               chosen \in { c \in SUBSET tables[category] : Cardinality(c) = count } }

\* lines 405-414 and their eight copies: random.sample of count ids when the
\* table has that many, every row of the table otherwise
Samples(category, count) ==
    IF count <= 0 THEN { {} }
    ELSE IF Cardinality(tables[category]) >= count
    THEN { { Picked(category, q) : q \in chosen } :
               chosen \in { c \in SUBSET tables[category] : Cardinality(c) = count } }
    ELSE { { Picked(category, q) : q \in tables[category] } }

\* lines 436-439 and 469-472: the two halves of a split count
FirstShare(count, ratio) == IF count > 0 THEN IntOfProduct(count, ratio) ELSE 0
SecondShare(count, ratio) == IF count > 0 THEN count - IntOfProduct(count, ratio) ELSE 0

\* random.shuffle: every order of the rows
RECURSIVE Orders(_)
Orders(rows) ==
    IF rows = {} THEN { << >> }
    ELSE UNION { { << q >> \o rest : rest \in Orders(rows \ { q }) } : q \in rows }

\* the longest list whose every order the model keeps
MaxShuffled == 6

\* the rows of a set in one order
RECURSIVE SeqOf(_)
SeqOf(rows) ==
    IF rows = {} THEN << >>
    ELSE LET q == CHOOSE x \in rows : TRUE
         IN  << q >> \o SeqOf(rows \ { q })

Rotations(s) ==
    { SubSeq(s, k, Len(s)) \o SubSeq(s, 1, k - 1) : k \in 1..Len(s) }

\* random.shuffle(result), line 493: every order of a list of at most
\* MaxShuffled rows; of a longer list, the rotations of one order
Shuffles(rows) ==
    IF Cardinality(rows) <= MaxShuffled THEN Orders(rows)
    ELSE Rotations(SeqOf(rows))

Pending == [returned |-> FALSE, raised |-> FALSE, questions |-> << >>]
Returned(result) == [returned |-> TRUE, raised |-> FALSE, questions |-> result]
\* lines 499-502: a query raised and the except clause returned []
ReturnedEmpty == [returned |-> TRUE, raised |-> TRUE, questions |-> << >>]

\* the count lines 405-490 ask of the table of a category
TableCount(cfg, category) ==
    IF category = Os THEN cfg.os_count
    ELSE IF category = Network THEN cfg.network_count
    ELSE IF category = Db THEN cfg.db_count
    ELSE IF category = BaseSql THEN FirstShare(cfg.sql_count, cfg.basic_sql_ratio)
    ELSE IF category = HardSql THEN SecondShare(cfg.sql_count, cfg.basic_sql_ratio)
    ELSE IF category = Program THEN cfg.program_count
    ELSE IF category = AppTest THEN FirstShare(cfg.app_count, cfg.app_test_ratio)
    ELSE IF category = AppDefect THEN SecondShare(cfg.app_count, cfg.app_test_ratio)
    ELSE 0

\* lines 402-498: the lists the body can return for a config when no query
\* raises
CustomTestLists(cfg) ==
    UNION { Shuffles(os \cup network \cup db \cup base_sql \cup hard_sql
                        \cup program \cup app_test \cup app_defect) :
                os \in Samples(Os, TableCount(cfg, Os)),
                network \in Samples(Network, TableCount(cfg, Network)),
                db \in Samples(Db, TableCount(cfg, Db)),
                base_sql \in Samples(BaseSql, TableCount(cfg, BaseSql)),
                hard_sql \in Samples(HardSql, TableCount(cfg, HardSql)),
                program \in Samples(Program, TableCount(cfg, Program)),
                app_test \in Samples(AppTest, TableCount(cfg, AppTest)),
                app_defect \in Samples(AppDefect, TableCount(cfg, AppDefect)) }

\* lines 399-502
CreateCustomTest ==
    /\ ~custom_test.returned
    /\ \/ \E result \in CustomTestLists(config) :
              custom_test' = Returned(result)
       \/ custom_test' = ReturnedEmpty
    /\ UNCHANGED << config, tables, grade_vars, submit_vars, query_vars,
                 service_vars >>

(***************************************************************************)
(* The configs and banks create_custom_test is called with                 *)
(***************************************************************************)
Half == Frac(1, 2)
Ratios == { Frac(0, 1), Half, Frac(1, 1) }

\* the largest count a config asks of a category; -1 is a count the
\* request model accepts as it accepts any int
MaxCount == 2
Counts == -1..MaxCount

Configs ==
    [os_count : Counts, network_count : { 0, 1 }, db_count : Counts,
     sql_count : 0..MaxCount, basic_sql_ratio : Ratios,
     program_count : { 0, 1 }, app_count : 0..MaxCount, app_test_ratio : Ratios]

Row(category, n) == Question(category \o << "-", n >>, << "A" >>, << >>)

\* a bank with tables that hold more than, as many as, and fewer rows than
\* a config asks, and ids that are unique across the tables
AssemblyTables ==
    [c \in CategoryNames |->
        IF c = Os THEN { Row(Os, "1"), Row(Os, "2") }
        ELSE IF c = Network THEN { Row(Network, "1") }
        ELSE IF c = Db THEN { Row(Db, "1") }
        ELSE IF c = BaseSql THEN { Row(BaseSql, "1") }
        ELSE IF c = Algorithm THEN { Row(Algorithm, "1") }
        ELSE IF c = AppDefect THEN { Row(AppDefect, "1") }
        ELSE {}]

(***************************************************************************)
(* create_standard_test                                                    *)
(***************************************************************************)
\* lines 508-517
StandardConfig ==
    [os_count |-> 3, network_count |-> 3, db_count |-> 3, sql_count |-> 4,
     basic_sql_ratio |-> Half, program_count |-> 6, app_count |-> 1,
     app_test_ratio |-> Half]

\* lines 506-519: the config, then create_custom_test on it
CreateStandardTest ==
    /\ ~custom_test.returned
    /\ config' = StandardConfig
    /\ \/ \E result \in CustomTestLists(StandardConfig) :
              custom_test' = Returned(result)
       \/ custom_test' = ReturnedEmpty
    /\ UNCHANGED << tables, grade_vars, submit_vars, query_vars,
                 service_vars >>

\* a bank with sizes[c] rows in the table of category c
Bank(sizes) ==
    [c \in CategoryNames |->
        { Row(c, << "1", "2", "3", "4", "5", "6", "7", "8" >>[k]) : k \in 1..sizes[c] }]

\* banks whose tables hold the standard quota, one row more, or one row less
StandardBanks ==
    { Bank([c \in CategoryNames |->
                IF c = Os THEN os ELSE IF c = Db THEN db
                ELSE IF c = HardSql THEN hard_sql
                ELSE IF c = Program THEN program
                ELSE IF c = AppTest THEN app_test
                ELSE IF c = AppDefect THEN app_defect
                ELSE IF c = Network THEN 3 ELSE IF c = BaseSql THEN 2 ELSE 1]) :
          os \in { 3, 4 }, db \in { 2, 3 }, hard_sql \in { 2, 3 },
          program \in { 5, 6 }, app_test \in { 0, 1 }, app_defect \in { 0, 1 } }

(***************************************************************************)
(* create_personalized_test                                                *)
(***************************************************************************)
\* lines 728-730: the keywords of one row, in order, stripped, none empty
KeywordList(keywords) ==
    LET parts == SplitOn(keywords, { "," })
    IN  SelectSeq([i \in DOMAIN parts |-> Strip(parts[i])], LAMBDA k : k # << >>)

\* the keywords of the rows in the order the loop of line 726 meets them
RECURSIVE KeywordsInOrder(_)
KeywordsInOrder(rows) ==
    IF rows = << >> THEN << >>
    ELSE (IF Head(rows).keywords = << >> THEN << >>
          ELSE KeywordList(Head(rows).keywords)) \o KeywordsInOrder(Tail(rows))

\* keyword_frequency[keyword], line 731
Frequency(met, keyword) == Cardinality({ i \in DOMAIN met : met[i] = keyword })

\* the keys of keyword_frequency in insertion order
FirstMet(met) ==
    SelectSeq([i \in DOMAIN met |->
                  IF \E j \in 1..(i - 1) : met[j] = met[i] THEN << >> ELSE met[i]],
              LAMBDA k : k # << >>)

\* line 742: sorted by weight, largest first; sorted() is stable
ByWeight(met) ==
    LET keys == FirstMet(met)
        rank(i) == 1 + Cardinality({ j \in DOMAIN keys :
                        \/ Frequency(met, keys[j]) > Frequency(met, keys[i])
                        \/ Frequency(met, keys[j]) = Frequency(met, keys[i]) /\ j < i })
    IN  [n \in DOMAIN keys |-> keys[CHOOSE i \in DOMAIN keys : rank(i) = n]]

\* line 744: max(1, int(total_questions * wrong_ratio * weight * 2)) with
\* weight = frequency / total_frequency
SearchLimit(total, ratio, frequency, total_frequency) ==
    LET limit == (total * ratio.num * frequency * 2) \div (ratio.den * total_frequency)
    IN  IF limit >= 1 THEN limit ELSE 1

\* lines 748-750: the rows whose keywords contain the keyword, at most limit
\* of them, as a query without ORDER BY returns them
KeywordMatches(category, keyword, limit) ==
    LET hits == { q \in tables[category] : Contains(q.keywords, keyword) }
        n == IF Cardinality(hits) <= limit THEN Cardinality(hits) ELSE limit
    IN  UNION { Orders({ Picked(category, q) : q \in some }) :
                    some \in { h \in SUBSET hits : Cardinality(h) = n } }

\* lines 741-753: keyword_questions after the searches from (k, n) on, k an
\* index of QUESTION_TYPE_MAPPING and n an index of the sorted keywords
RECURSIVE KeywordQuestions(_, _, _, _, _)
KeywordQuestions(met, total, ratio, k, n) ==
    LET keys == ByWeight(met)
    IN  IF k > Len(QUESTION_TYPE_MAPPING) THEN { << >> }
        ELSE IF n > Len(keys)
        THEN KeywordQuestions(met, total, ratio, k + 1, 1)
        ELSE { found \o rest :
                   found \in KeywordMatches(QUESTION_TYPE_MAPPING[k], keys[n],
                                 SearchLimit(total, ratio,
                                             Frequency(met, keys[n]), Len(met))),
                   rest \in KeywordQuestions(met, total, ratio, k, n + 1) }

\* a variant of the share below that keeps int(total * ratio) slots for
\* keyword questions whether or not that many were found
KeywordShareFixed(keyword_questions, total, ratio) ==
    LET wanted == Min(IntOfProduct(total, ratio), total)
        kept == SubSeq(keyword_questions, 1, Min(wanted, Len(keyword_questions)))
    IN  [result |-> kept,
         selected_ids |-> { kept[k].id : k \in DOMAIN kept },
         remaining_count |-> total - wanted]

\* lines 756-762: the keyword questions kept, their ids, the slots left
KeywordShare(keyword_questions, total, ratio) ==
    LET wanted == IntOfProduct(total, ratio)
        wrong_questions_count ==
            IF Len(keyword_questions) <= wanted THEN Len(keyword_questions)
            ELSE wanted
        kept == SubSeq(keyword_questions, 1, wrong_questions_count)
    IN  [result |-> kept,
         selected_ids |-> { kept[i].id : i \in DOMAIN kept },
         remaining_count |-> total - wrong_questions_count]

\* a variant of the pass below that keeps every row
UniqueKeepAll(result, unique_questions, total) == unique_questions \o result

\* lines 802-808: the first row of each id, at most total rows
RECURSIVE Unique(_, _, _)
Unique(result, unique_questions, total) ==
    IF result = << >> THEN unique_questions
    ELSE Unique(Tail(result),
                IF /\ \A i \in DOMAIN unique_questions :
                          unique_questions[i].id # Head(result).id
                   /\ Len(unique_questions) < total
                THEN Append(unique_questions, Head(result))
                ELSE unique_questions,
                total)

\* the call before its first line, and the two ways it ends: line 813
\* returns the list, lines 815-820 raise HTTPException with status 500
NoCall ==
    [pc |-> "done", user_id |-> NoUser, wrong_ratio |-> Frac(0, 1),
     total_questions |-> 0, result |-> << >>, selected_ids |-> {},
     remaining_count |-> 0, remaining |-> 0, categories |-> {},
     filled |-> {}, status |-> 0, raised |-> FALSE, questions |-> << >>]
Call(user_id, wrong_ratio, total_questions) ==
    [NoCall EXCEPT !.pc = "start", !.user_id = user_id,
                   !.wrong_ratio = wrong_ratio,
                   !.total_questions = total_questions]
ServerError(call) ==
    [Call(call.user_id, call.wrong_ratio, call.total_questions)
        EXCEPT !.pc = "done", !.status = 500]

\* lines 711-762. The HTTPException of lines 714-717 is raised inside the
\* try block and HTTPException is an Exception: the except clause of line
\* 815 catches it and raises the one with status 500.
PersonalBegin ==
    /\ personal.pc = "start"
    /\ IF personal.user_id \notin Users
       THEN personal' = ServerError(personal)
       ELSE \E wrong_answers \in Orders({ w \in user_wrong_answers :
                                            w.user_id = personal.user_id }) :
              \E keyword_questions \in
                     KeywordQuestions(KeywordsInOrder(wrong_answers),
                                      personal.total_questions,
                                      personal.wrong_ratio, 1, 1) :
                LET share == KeywordShare(keyword_questions,
                                          personal.total_questions,
                                          personal.wrong_ratio)
                IN  personal' = [personal EXCEPT
                        !.pc = "fill",
                        !.result = share.result,
                        !.selected_ids = share.selected_ids,
                        !.remaining_count = share.remaining_count,
                        !.remaining = share.remaining_count,
                        !.categories = CategoryNames]
    /\ UNCHANGED << grade_vars, tables, submit_vars, assembly_vars, lookup,
                 service_vars >>

\* line 770
QuestionsPerCategory(remaining_count) ==
    IF remaining_count \div Len(QUESTION_TYPE_MAPPING) >= 1
    THEN remaining_count \div Len(QUESTION_TYPE_MAPPING) ELSE 1

\* lines 773-796 for the next category of the shuffled list of line 768:
\* any category the loop has not visited. filled holds the rows the loop
\* appended to result; line 799 shuffles result before its order is read.
FillCategory(category) ==
    /\ personal.pc = "fill"
    /\ personal.remaining > 0
    /\ category \in personal.categories
    /\ LET per == QuestionsPerCategory(personal.remaining_count)
           category_count == Min(per, personal.remaining)
           random_questions ==
               { Picked(category, q) :
                     q \in { t \in tables[category] :
                                 t.id \notin personal.selected_ids } }
       IN  \E selected \in
                 (IF Cardinality(random_questions) > category_count
                  THEN { c \in SUBSET random_questions :
                             Cardinality(c) = category_count }
                  ELSE { random_questions }) :
               personal' = [personal EXCEPT
                   !.categories = @ \ { category },
                   !.selected_ids = @ \cup { q.id : q \in selected },
                   !.filled = @ \cup selected,
                   !.remaining = @ - Cardinality(selected)]
    /\ UNCHANGED << grade_vars, tables, submit_vars, assembly_vars, lookup,
                 service_vars >>

\* lines 798-813, once the loop of line 773 has ended
PersonalFinish ==
    /\ personal.pc = "fill"
    /\ personal.remaining <= 0 \/ personal.categories = {}
    /\ LET result == personal.result \o SeqOf(personal.filled)
       IN  \E order \in Shuffles(DOMAIN result) :
               personal' = [personal EXCEPT
                   !.pc = "done",
                   !.status = 200,
                   !.questions = Unique([i \in DOMAIN order |-> result[order[i]]],
                                        << >>, personal.total_questions)]
    /\ UNCHANGED << grade_vars, tables, submit_vars, assembly_vars, lookup,
                 service_vars >>

\* a query of lines 712-783 raises: lines 815-820
PersonalQueryRaises ==
    /\ \/ personal.pc = "start"
       \/ personal.pc = "fill" /\ personal.remaining > 0 /\ personal.categories # {}
    /\ personal' = [ServerError(personal) EXCEPT !.raised = TRUE]
    /\ UNCHANGED << grade_vars, tables, submit_vars, assembly_vars, lookup,
                 service_vars >>

(***************************************************************************)
(* The calls, histories and banks create_personalized_test runs on         *)
(***************************************************************************)
\* total_questions: Query(20, ge=5, le=50)
MinTotal == 5
MaxTotal == 10
Totals == { MinTotal, 9, MaxTotal }

WrongAnswer(id, question_id, category, keywords) ==
    [id |-> id, user_id |-> "u1", question_id |-> question_id,
     question_category |-> category, user_answer |-> << "x" >>,
     attempt_count |-> DefaultAttemptCount, keywords |-> keywords]

\* no row; a row without keywords; one row with two keywords; two rows that
\* make one keyword twice as frequent as the other
Histories ==
    { {},
      { WrongAnswer(1, OsOne, Os, << >>) },
      { WrongAnswer(1, OsOne, Os, << "a", ",", " ", "b" >>) },
      { WrongAnswer(1, OsOne, Os, << "a" >>),
        WrongAnswer(2, DbOne, Db, << "b", ",", "a" >>) } }

\* banks with one and with two rows per table; some rows carry the keywords
\* of the histories, one row carries both
Keyed(category, n) ==
    Question(category \o << "-", n >>, << "A" >>,
             IF category = Os /\ n = "1" THEN << "a", ",", "b" >>
             ELSE IF category = Db /\ n = "1" THEN << "b" >>
             ELSE IF category = Network /\ n = "1" THEN << "x", "a" >>
             ELSE << >>)

SmallBank == [c \in CategoryNames |-> { Keyed(c, "1") }]
LargeBank == [c \in CategoryNames |-> { Keyed(c, "1"), Keyed(c, "2") }]
PersonalBanks == { SmallBank, LargeBank }

(***************************************************************************)
(* get_questions, get_question, get_random_question, get_user_wrong_answers *)
(***************************************************************************)
\* a request of one of the handlers; category is << >> when the query
\* string has none; difficulty is never given
NoRequest ==
    [pc |-> "done", handler |-> "none", question_id |-> << >>,
     category |-> << >>, user_id |-> NoUser, limit |-> 1, offset |-> 0,
     answer |-> << >>, status |-> 0, raised |-> FALSE, body |-> << >>]
Respond(status, body) ==
    lookup' = [lookup EXCEPT !.pc = "done", !.status = status, !.body = body]

\* every list of n of the rows, n = Cardinality(rows) when there are fewer
Sample(rows, n) ==
    UNION { Orders(some) :
                some \in { c \in SUBSET rows :
                               Cardinality(c) = Min(n, Cardinality(rows)) } }

\* lines 219-251. Both HTTPExceptions of status 404 are raised inside the
\* try block; the except clause of line 246 catches them and raises the one
\* of status 500.
GetQuestion ==
    /\ lookup.pc = "called" /\ lookup.handler = "get_question"
    /\ LET question == FindQuestion(lookup.question_id)
       IN  IF question.found THEN Respond(200, << question.row >>)
           ELSE Respond(500, << >>)
    /\ UNCHANGED << grade_vars, tables, submit_vars, assembly_vars, personal,
                 service_vars >>

\* lines 126-137: the limit of each category for a shuffled list of the
\* categories, given as the sets of the categories served by the first loop
\* and of those the second loop gives one more
RECURSIVE FirstLoop(_, _)
FirstLoop(k, total_needed) ==
    IF k > Len(QUESTION_TYPE_MAPPING) \/ total_needed <= 0 THEN << >>
    ELSE LET share == IF total_needed \div Len(QUESTION_TYPE_MAPPING) >= 1
                      THEN total_needed \div Len(QUESTION_TYPE_MAPPING) ELSE 1
         IN  << share >> \o FirstLoop(k + 1, total_needed - share)

RECURSIVE Sum(_)
Sum(s) == IF s = << >> THEN 0 ELSE Head(s) + Sum(Tail(s))

CategoryLimits(limit) ==
    LET first == FirstLoop(1, limit)
        left == limit - Sum(first)
    IN  [k \in DOMAIN first |-> IF k <= left THEN first[k] + 1 ELSE first[k]]

\* lines 140-162: the rows taken from the categories k.. of the shuffled
\* list, each under its limit
RECURSIVE Taken(_, _, _)
Taken(categories, limits, k) ==
    IF k > Len(limits) THEN { {} }
    ELSE { Range(questions) \cup rest :
               questions \in Sample(tables[categories[k]], limits[k]),
               rest \in Taken(categories, limits, k + 1) }

\* lines 112-215; of the shuffled list of line 124 only the categories that
\* get a limit are read
GetQuestions ==
    /\ lookup.pc = "called" /\ lookup.handler = "get_questions"
    /\ IF lookup.category = << >>
       THEN LET limits == CategoryLimits(lookup.limit)
            IN  \E categories \in
                       { c \in [DOMAIN limits -> CategoryNames] :
                             \A i, j \in DOMAIN c : c[i] = c[j] => i = j } :
                \E taken \in Taken(categories, limits, 1) :
                \E result \in Shuffles(taken) :
                    Respond(200, SubSeq(result, 1, Min(lookup.limit, Len(result))))
       \* line 171 raises inside the try block and line 215 returns []
       ELSE IF lookup.category \notin CategoryNames THEN Respond(200, << >>)
       ELSE LET all_ids == tables[lookup.category]
                total_count == Cardinality(all_ids)
            IN  IF total_count = 0 \/ lookup.offset >= total_count
                THEN Respond(200, << >>)
                ELSE \E remaining_ids \in
                            { c \in SUBSET all_ids :
                                  Cardinality(c) = total_count - lookup.offset } :
                       \E questions \in
                              Sample(remaining_ids, Min(lookup.limit, total_count)) :
                           Respond(200, questions)
    /\ UNCHANGED << grade_vars, tables, submit_vars, assembly_vars, personal,
                 service_vars >>

\* lines 316-383
GetRandomQuestion ==
    /\ lookup.pc = "called" /\ lookup.handler = "get_random_question"
    /\ LET candidates ==
               IF lookup.category = << >> THEN UNION Range(tables)
               ELSE IF lookup.category \in CategoryNames
               THEN tables[lookup.category]
               ELSE {}
       IN  IF candidates = {} THEN Respond(500, << >>)
           ELSE \E question \in candidates : Respond(200, << question >>)
    /\ UNCHANGED << grade_vars, tables, submit_vars, assembly_vars, personal,
                 service_vars >>

\* lines 673-683: an entry of the result
WrongAnswerEntry(wa, question) ==
    [id |-> wa.id, question_id |-> wa.question_id,
     user_answer |-> wa.user_answer, correct_answer |-> question.answer,
     question_category |-> wa.question_category, keywords |-> wa.keywords,
     attempt_count |-> wa.attempt_count]

\* lines 650-692. created_at is not kept: ORDER BY created_at is any order.
GetUserWrongAnswers ==
    /\ lookup.pc = "called" /\ lookup.handler = "get_user_wrong_answers"
    /\ IF lookup.user_id \notin Users THEN Respond(500, << >>)
       ELSE \E ordered \in Orders({ w \in user_wrong_answers :
                                      w.user_id = lookup.user_id }) :
              LET wrong_answers ==
                      SubSeq(ordered, lookup.offset + 1,
                             Min(Len(ordered), lookup.offset + lookup.limit))
                  known == SelectSeq(wrong_answers, LAMBDA wa :
                               /\ wa.question_category \in CategoryNames
                               /\ RowsById(wa.question_category, wa.question_id) # {})
              IN  Respond(200,
                      [i \in DOMAIN known |->
                          WrongAnswerEntry(known[i],
                              CHOOSE q \in RowsById(known[i].question_category,
                                                    known[i].question_id) : TRUE)])
    /\ UNCHANGED << grade_vars, tables, submit_vars, assembly_vars, personal,
                 service_vars >>

(***************************************************************************)
(* POST /api/evaluate                                                      *)
(***************************************************************************)
\* api.py lines 17-27: the evaluate_answer the router defines and calls
evaluate_answer(user_answer_, question_data_) ==
    LET correct_answer == question_data_.answer.s
        is_correct == Strip(Lower(user_answer_)) = Strip(Lower(correct_answer))
    IN  [is_correct |-> is_correct,
         score |-> IF is_correct THEN Frac(1, 1) ELSE Frac(0, 1),
         feedback |-> IF is_correct THEN "correct" ELSE "wrong",
         correct_answer |-> correct_answer,
         example |-> question_data_.example]

\* round(score * 100) / 100, round() to the nearest integer, halves to even
RoundHundredths(score) ==
    LET n == 100 * score.num
        q == n \div score.den
        r == n % score.den
    IN  Frac(IF 2 * r > score.den \/ (2 * r = score.den /\ q % 2 = 1)
             THEN q + 1 ELSE q, 100)

\* lines 284-288: the dict built from the row
QuestionData(question) ==
    Data(Str(question.answer), Str(question.question), question.example)

\* lines 254-307. A prefix that names a category selects its table; else the
\* tables are scanned and the table of the first hit is queried again. A
\* question that is not found ends in the except clause of line 302 (as
\* HTTPException 404, or as KeyError of line 273 for an unknown prefix).
evaluate_user_answer ==
    /\ lookup.pc = "called" /\ lookup.handler = "evaluate"
    /\ LET question == FindQuestion(lookup.question_id)
           evaluation_result ==
               evaluate_answer(lookup.answer, QuestionData(question.row))
       IN  IF question.found
           THEN Respond(200,
                    << [is_correct |-> evaluation_result.is_correct,
                        score |-> RoundHundredths(evaluation_result.score),
                        feedback |-> evaluation_result.feedback,
                        correct_answer |-> evaluation_result.correct_answer,
                        example |-> evaluation_result.example] >>)
           ELSE Respond(500, << >>)
    /\ UNCHANGED << grade_vars, tables, submit_vars, assembly_vars, personal,
                 service_vars >>

\* a query of the handler raises: get_questions returns [] (line 215), the
\* other handlers raise HTTPException with status 500
LookupQueryRaises ==
    /\ lookup.pc = "called"
    /\ lookup' = [lookup EXCEPT
           !.pc = "done", !.raised = TRUE,
           !.status = IF lookup.handler = "get_questions" THEN 200 ELSE 500]
    /\ UNCHANGED << grade_vars, tables, submit_vars, assembly_vars, personal,
                 service_vars >>

\* the requests: ids in the table of their prefix, in another table, in no
\* table, without prefix, with an unknown prefix; categories with rows,
\* without rows, unknown; users known and unknown
LookupCalls ==
    { [NoRequest EXCEPT !.pc = "called", !.handler = "get_question",
                        !.question_id = id] :
          id \in { OsOne, DbOne, OsNine, OsMissing, QSeven,
                   << "x", "x", "-", "1" >>, << "q", "8" >> } }
    \cup
    { [NoRequest EXCEPT !.pc = "called", !.handler = "get_questions",
                        !.category = category, !.limit = limit,
                        !.offset = offset] :
          category \in { << >>, Os, Db, Algorithm, << "x", "x" >> },
          limit \in 1..2, offset \in 0..1 }
    \cup
    { [NoRequest EXCEPT !.pc = "called", !.handler = "get_random_question",
                        !.category = category] :
          category \in { << >>, Os, Db, Algorithm, << "x", "x" >> } }
    \cup
    { [NoRequest EXCEPT !.pc = "called", !.handler = "get_user_wrong_answers",
                        !.user_id = user_id, !.limit = limit,
                        !.offset = offset] :
          user_id \in { "u1", "u9" }, limit \in 1..2, offset \in 0..1 }

(***************************************************************************)
(* The keyword extraction adapter: keyword_extraction.extract_key_phrases  *)
(* and simple_analysis.extract_keywords                                    *)
(***************************************************************************)
\* the characters of \w in the texts of the model, and of [가-힣]
Letters == AsciiUpper \cup Range(LowerSeq)
Hangul == { Ga, Yeong, Mun, Yak, Eo }
WordChars == Letters \cup Digits \cup { "_" } \cup Hangul

\* re.findall of a character class with +: the maximal runs of its characters
Runs(text, class) ==
    SelectSeq(SplitOn(text, Range(text) \ class), LAMBDA w : w # << >>)

\* the words of a list in the order of their first occurrence
RECURSIVE Distinct(_)
Distinct(words) ==
    IF words = << >> THEN << >>
    ELSE LET before == Distinct(SubSeq(words, 1, Len(words) - 1))
             last == words[Len(words)]
         IN  IF last \in Range(before) THEN before ELSE Append(before, last)

Occurrences(words, w) == Cardinality({ i \in DOMAIN words : words[i] = w })

\* Counter(words).most_common(top_n): by count, ties in insertion order
MostCommon(words, top_n) ==
    LET keys == Distinct(words)
        Before(i, j) ==
            \/ Occurrences(words, keys[i]) > Occurrences(words, keys[j])
            \/ /\ Occurrences(words, keys[i]) = Occurrences(words, keys[j])
               /\ i < j
        Place(j) == 1 + Cardinality({ i \in DOMAIN keys : Before(i, j) })
        sorted == [k \in DOMAIN keys |->
                      keys[CHOOSE j \in DOMAIN keys : Place(j) = k]]
    IN  SubSeq(sorted, 1, Min(top_n, Len(sorted)))

\* the stopwords of the two modules that the texts of the model can hold:
\* '그' and '이' of both Korean lists, 'the' and 'and' of nltk's English list
KOREAN_STOPWORDS == { << "U+ADF8" >>, << "U+C774" >> }
EnglishStopwords == { << "t", "h", "e" >>, << "a", "n", "d" >> }

\* keyword_extraction lines 145-178; r'[^\w\s]' and r'[^a-zA-Z\s]' leave the
\* runs of letters and the runs of Hangul of the lowered text
FallbackTopN == 5
fallback_extract_key_phrases(text, top_n) ==
    LET lowered == Lower(text)
        korean_words == Runs(lowered, Hangul)
        english_tokens == Runs(lowered, Letters)
        english_filtered ==
            SelectSeq(english_tokens,
                      LAMBDA w : w \notin EnglishStopwords /\ Len(w) > 2)
        korean_filtered ==
            SelectSeq(korean_words,
                      LAMBDA w : w \notin KOREAN_STOPWORDS /\ Len(w) > 1)
    IN  MostCommon(english_filtered \o korean_filtered, top_n)

\* simple_analysis lines 89-97: list(set(...)) has the words in any order
extract_core_keywords(text) ==
    Shuffles({ w \in Range(Runs(text, WordChars)) :
                   w \notin KOREAN_STOPWORDS /\ Len(w) > 1 })

\* the reply of comprehend.detect_key_phrases: an exception, or KeyPhrases
\* with Text and Score (Score in percent)
MaxPhrases == 6
Phrase(k) == << "p", UpperSeq[k] >>
KeyPhrases(n, high) ==
    [k \in 1..n |-> [Text |-> Phrase(k), Score |-> IF k <= high THEN 90 ELSE 50]]
ComprehendReplies ==
    { [ok |-> FALSE, KeyPhrases |-> << >>] }
    \cup { [ok |-> TRUE, KeyPhrases |-> KeyPhrases(n, high)] :
               n \in 0..MaxPhrases, high \in 0..MaxPhrases }

\* the reply of openai.chat.completions.create: an exception, or the content
\* of the first choice
Commas(n) == [k \in 1..(3 * n) |->
                 IF k % 3 = 0 THEN "," ELSE IF k % 3 = 1 THEN "k" ELSE UpperSeq[(k + 1) \div 3]]
OpenAiReplies ==
    { [ok |-> FALSE, content |-> << >>] }
    \cup { [ok |-> TRUE, content |-> c] :
               c \in { << >>, << " ", ",", " " >>,
                       << " ", "k", "A", ",", " ", ",", "k", "B", " " >> } }
    \cup { [ok |-> TRUE, content |-> Commas(n)] : n \in 1..MaxPhrases }

\* keyword_extraction lines 40-107
filter_keywords_with_openai(raw_keywords, reply) ==
    IF raw_keywords = << >> THEN << >>
    ELSE IF ~reply.ok THEN raw_keywords
    ELSE LET parts == SplitOn(Strip(reply.content), { "," })
             stripped == [i \in DOMAIN parts |-> Strip(parts[i])]
             filtered_keywords == SelectSeq(stripped, LAMBDA k : k # << >>)
         IN  IF filtered_keywords = << >> THEN raw_keywords
             ELSE filtered_keywords

\* the call of the adapter and what it returned
NoExtraction ==
    [pc |-> "done", fn |-> "none", text |-> << >>, comprehend_ok |-> FALSE,
     openai_ok |-> FALSE, raised |-> FALSE, result |-> << >>]
Extracted(comprehend, openai, result) ==
    extraction' = [extraction EXCEPT !.pc = "done",
                                     !.comprehend_ok = comprehend.ok,
                                     !.openai_ok = openai.ok,
                                     !.result = result]

\* keyword_extraction lines 109-143 (the cut of line 125 at 5000 characters
\* leaves the texts of the model as they are)
extract_key_phrases ==
    /\ extraction.pc = "called" /\ extraction.fn = "extract_key_phrases"
    /\ \E comprehend \in ComprehendReplies, openai \in OpenAiReplies :
         LET text == extraction.text
             key_phrases == [k \in DOMAIN comprehend.KeyPhrases |->
                                comprehend.KeyPhrases[k].Text]
         IN  IF Strip(text) = << >>
             THEN Extracted(comprehend, openai, << >>)
             ELSE IF comprehend.ok
             THEN Extracted(comprehend, openai,
                            filter_keywords_with_openai(key_phrases, openai))
             ELSE Extracted(comprehend, openai,
                            fallback_extract_key_phrases(text, FallbackTopN))
    /\ UNCHANGED << grade_vars, tables, submit_vars, assembly_vars, query_vars,
                    work >>

\* simple_analysis lines 99-138
KeywordLimit == 5
extract_keywords ==
    /\ extraction.pc = "called" /\ extraction.fn = "extract_keywords"
    /\ \E comprehend \in ComprehendReplies, openai \in OpenAiReplies :
         LET text == extraction.text
             high == SelectSeq(comprehend.KeyPhrases, LAMBDA p : p.Score > 70)
             from_phrases == [k \in DOMAIN high |-> Strip(high[k].Text)]
         IN  IF comprehend.ok
             THEN \E core \in extract_core_keywords(text) :
                    LET keywords == IF from_phrases = << >> THEN core
                                    ELSE from_phrases
                        filtered_keywords ==
                            filter_keywords_with_openai(keywords, openai)
                    IN  Extracted(comprehend, openai,
                            SubSeq(filtered_keywords, 1,
                                   Min(KeywordLimit, Len(filtered_keywords))))
             ELSE \E core \in extract_core_keywords(text) :
                    Extracted(comprehend, openai, core)
    /\ UNCHANGED << grade_vars, tables, submit_vars, assembly_vars, query_vars,
                    work >>

\* the texts: empty, blank, one word, repeated words with a stopword and a
\* short word, Hangul words, six words
RECURSIVE Sentence(_)
Sentence(words) ==
    IF words = << >> THEN << >>
    ELSE IF Len(words) = 1 THEN words[1]
    ELSE words[1] \o << " " >> \o Sentence(Tail(words))
Tcp == << "T", "C", "P" >>
ExtractedTexts ==
    { << >>,
      << " " >>,
      Tcp,
      Sentence(<< << "i", "p" >>, Tcp, << "t", "h", "e" >>, << "u", "d", "p" >>,
                  << "t", "c", "p", "," >>, << "u", "d", "p" >> >>),
      Sentence(<< << Yeong, Mun >>, << Yak, Eo >>, << Ga >> >>),
      Sentence(<< Tcp, << "u", "d", "p" >>, << "s", "q", "l" >>,
                  << "d", "n", "s" >>, << "f", "t", "p" >>,
                  << "s", "s", "h" >> >>) }

ExtractionCalls ==
    { [NoExtraction EXCEPT !.pc = "called", !.fn = fn, !.text = text] :
          fn \in { "extract_key_phrases", "extract_keywords" },
          text \in ExtractedTexts }

(***************************************************************************)
(* user_info.update_work_status                                            *)
(***************************************************************************)
\* the clock counts ticks; datetime.now() is the tick, .date() its day
TicksPerDay == 2
MaxNow == 5
Date(stamp) == stamp \div TicksPerDay

\* last_work_date IS NULL
NoDate == -1

\* the requests, each served by its own worker and session
WorkCalls == { "w1", "w2" }

\* the columns of the users row the handler reads and writes (models.py
\* lines 16-17)
UserRow(user_work, last_work_date) ==
    [user_work |-> user_work, last_work_date |-> last_work_date]

NotCalled ==
    [pc |-> "idle", found |-> FALSE, last_work_date |-> NoDate,
     today |-> NoDate, stamp |-> NoDate, status |-> 0, message |-> "none"]

NoWork ==
    [row |-> UserRow(FALSE, NoDate), now |-> 0,
     calls |-> [c \in WorkCalls |-> [NotCalled EXCEPT !.pc = "done"]]]

WorkFrame ==
    UNCHANGED << grade_vars, tables, submit_vars, assembly_vars, query_vars,
                 extraction >>

\* lines 52-57: the SELECT by cognito_id; known is whether the token names
\* the user of the row
WorkQuery(c) ==
    /\ work.calls[c].pc = "idle"
    /\ \E known \in BOOLEAN :
           work' = [work EXCEPT !.calls[c] =
               IF known
               THEN [@ EXCEPT !.pc = "loaded", !.found = TRUE,
                              !.last_work_date = work.row.last_work_date]
               ELSE [@ EXCEPT !.pc = "done", !.status = 404]]
    /\ WorkFrame

\* lines 60-63 and 68-69: today, and the test on the loaded last_work_date
WorkToday(c) ==
    /\ work.calls[c].pc = "loaded"
    /\ LET today == Date(work.now)
           last == work.calls[c].last_work_date
       IN  work' = [work EXCEPT !.calls[c] =
               IF last = NoDate \/ Date(last) # today
               THEN [@ EXCEPT !.pc = "commit", !.today = today]
               ELSE [@ EXCEPT !.pc = "done", !.today = today, !.status = 200,
                              !.message = "already_completed"]]
    /\ WorkFrame

\* lines 64-67: the UPDATE of the two columns and the commit
WorkCommit(c) ==
    /\ work.calls[c].pc = "commit"
    /\ work' = [work EXCEPT
           !.row = UserRow(TRUE, work.now),
           !.calls[c] = [@ EXCEPT !.pc = "done", !.stamp = work.now,
                                  !.status = 200, !.message = "completed"]]
    /\ WorkFrame

\* time passes
Tick ==
    /\ work.now < MaxNow
    /\ work' = [work EXCEPT !.now = @ + 1]
    /\ WorkFrame


ServiceIdle == extraction = NoExtraction /\ work = NoWork

(***************************************************************************)
(* Specifications                                                          *)
(***************************************************************************)
GradeIdle ==
    /\ user_answer = << >>
    /\ question_data = NoData
    /\ use_advanced = FALSE
    /\ step = "done"
    /\ verdict = NoVerdict
    /\ remote_calls = 0
    /\ remote_outcome = "none"
    /\ lexical_runs = 0

SubmitIdle ==
    /\ user_wrong_answers = {}
    /\ next_id = 1
    /\ requests = [r \in Requests |-> Idle]
    /\ recorded = [k \in RecordedKeys |-> NoMisses]

AssemblyIdle ==
    /\ config = CHOOSE c \in Configs : TRUE
    /\ custom_test = Returned(<< >>)

QueryIdle == personal = NoCall /\ lookup = NoRequest /\ ServiceIdle

\* one evaluate_answer call on any of the arguments
GradeInit ==
    /\ user_answer \in UserAnswers
    /\ question_data \in QuestionDatas
    /\ use_advanced \in BOOLEAN
    /\ step = "validate"
    /\ verdict = NoVerdict
    /\ remote_calls = 0
    /\ remote_outcome = "none"
    /\ lexical_runs = 0
    /\ tables = SubmitTables
    /\ SubmitIdle
    /\ AssemblyIdle
    /\ QueryIdle

GradeNext ==
    \/ Validate
    \/ ExactMatch
    \/ OptionMatch
    \/ FormatVeto
    \/ ListMatch
    \/ RemoteGrade
    \/ LexicalFallback

SpecGrade == GradeInit /\ [][GradeNext]_vars

\* the submit_test requests, served by workers that share the database
SubmitInit ==
    /\ GradeIdle
    /\ tables = SubmitTables
    /\ SubmitIdle
    /\ AssemblyIdle
    /\ QueryIdle

SubmitNext ==
    \E r \in Requests :
        \/ SubmitBegin(r)
        \/ SubmitGrade(r)
        \/ SubmitWrite(r)
        \/ SubmitFinish(r)

SpecSubmit == SubmitInit /\ [][SubmitNext]_vars

\* the same requests served one after the other
NoneInFlight == \A r \in Requests : requests[r].pc \in { "idle", "done" }

SubmitSeqNext ==
    \E r \in Requests :
        \/ NoneInFlight /\ SubmitBegin(r)
        \/ SubmitGrade(r)
        \/ SubmitWrite(r)
        \/ SubmitFinish(r)

SpecSubmitSeq == SubmitInit /\ [][SubmitSeqNext]_vars

\* one request with a long body
SubmitLongNext ==
    \/ SubmitBegin("r1")
    \/ SubmitGradeLong("r1")
    \/ SubmitWrite("r1")
    \/ SubmitFinish("r1")

SpecSubmitLong == SubmitInit /\ [][SubmitLongNext]_vars

\* one create_custom_test call on any of the configs
AssemblyInit ==
    /\ GradeIdle
    /\ tables = AssemblyTables
    /\ SubmitIdle
    /\ config \in Configs
    /\ custom_test = Pending
    /\ QueryIdle

AssemblyNext == CreateCustomTest

SpecAssembly == AssemblyInit /\ [][AssemblyNext]_vars

\* create_custom_test on any body pydantic accepts for TestConfigRequest:
\* the fields are declared int and float, without bounds
AnyRatios == Ratios \cup { Frac(-1, 2), Frac(3, 2), Frac(2, 1) }
AnyConfigs ==
    [os_count : { -1, 0, 1 }, network_count : { 0 }, db_count : { 0 },
     sql_count : 0..MaxCount, basic_sql_ratio : AnyRatios,
     program_count : { 0 }, app_count : 0..MaxCount, app_test_ratio : AnyRatios]

SplitTables ==
    [c \in CategoryNames |->
        IF c = Os THEN { Row(Os, "1") }
        ELSE IF c \in { BaseSql, HardSql, AppTest }
        THEN { Row(c, "1"), Row(c, "2"), Row(c, "3") }
        ELSE IF c = AppDefect THEN { Row(c, "1") }
        ELSE {}]

AnyConfigInit ==
    /\ GradeIdle
    /\ tables = SplitTables
    /\ SubmitIdle
    /\ config \in AnyConfigs
    /\ custom_test = Pending
    /\ QueryIdle

SpecAnyConfig == AnyConfigInit /\ [][AssemblyNext]_vars

\* one create_standard_test call on any of the banks
StandardInit ==
    /\ GradeIdle
    /\ tables \in StandardBanks
    /\ SubmitIdle
    /\ config = CHOOSE c \in Configs : TRUE
    /\ custom_test = Pending
    /\ QueryIdle

StandardNext == CreateStandardTest

SpecStandard == StandardInit /\ [][StandardNext]_vars

\* one create_personalized_test call
PersonalizedInit ==
    /\ GradeIdle
    /\ tables \in PersonalBanks
    /\ user_wrong_answers \in Histories
    /\ next_id = 3
    /\ requests = [r \in Requests |-> Idle]
    /\ recorded = [k \in RecordedKeys |-> NoMisses]
    /\ AssemblyIdle
    /\ lookup = NoRequest
    /\ ServiceIdle
    /\ personal \in { Call(user_id, wrong_ratio, total_questions) :
                          user_id \in { "u1", "u9" }, wrong_ratio \in Ratios,
                          total_questions \in Totals }
    \* the bank with two rows per table serves the calls that ask the most
    /\ tables = LargeBank => personal.total_questions = MaxTotal

PersonalizedNext ==
    \/ PersonalBegin
    \/ \E category \in CategoryNames : FillCategory(category)
    \/ PersonalFinish
    \/ PersonalQueryRaises

SpecPersonalized == PersonalizedInit /\ [][PersonalizedNext]_vars

\* one request of a read handler
LookupInit ==
    /\ GradeIdle
    /\ tables = SubmitTables
    /\ user_wrong_answers \in Histories
    /\ next_id = 3
    /\ requests = [r \in Requests |-> Idle]
    /\ recorded = [k \in RecordedKeys |-> NoMisses]
    /\ AssemblyIdle
    /\ personal = NoCall
    /\ ServiceIdle
    /\ lookup \in LookupCalls

LookupNext ==
    \/ GetQuestions
    \/ GetQuestion
    \/ GetRandomQuestion
    \/ GetUserWrongAnswers
    \/ LookupQueryRaises

SpecLookup == LookupInit /\ [][LookupNext]_vars

\* the calls of update_work_status for one user, from a row that was never
\* credited, credited on an earlier day, or credited today
WorkInit ==
    /\ GradeIdle
    /\ tables = SubmitTables
    /\ SubmitIdle
    /\ AssemblyIdle
    /\ personal = NoCall
    /\ lookup = NoRequest
    /\ extraction = NoExtraction
    /\ \E row \in { UserRow(FALSE, NoDate), UserRow(TRUE, 0),
                    UserRow(TRUE, TicksPerDay) } :
           work = [row |-> row, now |-> TicksPerDay,
                   calls |-> [c \in WorkCalls |-> NotCalled]]

WorkNext ==
    \/ \E c \in WorkCalls :
           \/ WorkQuery(c)
           \/ WorkToday(c)
           \/ WorkCommit(c)
    \/ Tick

SpecWork == WorkInit /\ [][WorkNext]_vars

\* the same calls served one after the other
NoWorkInFlight == \A c \in WorkCalls : work.calls[c].pc \in { "idle", "done" }

WorkSeqNext ==
    \/ \E c \in WorkCalls :
           \/ NoWorkInFlight /\ WorkQuery(c)
           \/ WorkToday(c)
           \/ WorkCommit(c)
    \/ Tick

SpecWorkSeq == WorkInit /\ [][WorkSeqNext]_vars

\* one call of the keyword extraction adapter
KeywordsInit ==
    /\ GradeIdle
    /\ tables = SubmitTables
    /\ SubmitIdle
    /\ AssemblyIdle
    /\ personal = NoCall
    /\ lookup = NoRequest
    /\ extraction \in ExtractionCalls
    /\ work = NoWork

KeywordsNext ==
    \/ extract_key_phrases
    \/ extract_keywords

SpecKeywords == KeywordsInit /\ [][KeywordsNext]_vars

\* rows with the columns question and example
Asked(id, question, answer, example) ==
    [id |-> id, answer |-> answer, keywords |-> << >>,
     question |-> question, example |-> example]

\* the bank /api/evaluate and submit_test grade on: a question with
\* enumerated options, one whose stored answer is padded, a list answer, an
\* abbreviation question, and a long answer
OsTwo == << "o", "s", "-", "2" >>
OsThree == << "o", "s", "-", "3" >>
DbTwo == << "d", "b", "-", "2" >>
EvaluateTables ==
    [c \in CategoryNames |->
        IF c = Os
        THEN { Asked(OsOne, << "q", "?" >>, << "T", "C", "P" >>,
                     Str(<< "1", ".", " ", "T", "C", "P", "\n",
                            "2", ".", " ", "S", "N", "M", "P" >>)),
               Asked(OsTwo, << "q", "?" >>, << "2" >>,
                     Str(<< "1", ".", " ", "T", "C", "P", "\n",
                            "2", ".", " ", "S", "N", "M", "P" >>)),
               Asked(OsThree, << Yeong, Mun, " ", Yak, Eo, " ", "q" >>,
                     << "S", "N", "M", "P" >>, Null) }
        ELSE IF c = Db
        THEN { Asked(DbOne, << "q", "?" >>, << " ", "T", "C", "P", " " >>, Null),
               Asked(DbTwo, << "q", "?" >>,
                     << "A", ",", " ", "B", ",", " ", "C" >>, Null) }
        ELSE IF c = Network
        THEN { Asked(QSeven, << "q", "?" >>,
                     << "g", "o", " ", "g", "o", " ", "g", "o" >>, Null) }
        ELSE {}]

\* request.answer: empty, exact, other case, padded, an option number, an
\* option text, a list with other spacing, a part of the answer, unrelated
EvaluatedAnswers ==
    { << >>,
      << "T", "C", "P" >>,
      << "t", "c", "p" >>,
      << " ", "T", "C", "P" >>,
      << "2" >>,
      << "s", "n", "m", "p" >>,
      << "S", "N", "M", "P" >>,
      << "A", ",", "B", ",", "C" >>,
      << "g", "o" >>,
      << "!" >> }

EvaluateCalls ==
    { [NoRequest EXCEPT !.pc = "called", !.handler = "evaluate",
                        !.question_id = id, !.answer = answer] :
          id \in { OsOne, OsTwo, OsThree, DbOne, DbTwo, QSeven, OsMissing,
                   << "x", "x", "-", "1" >> },
          answer \in EvaluatedAnswers }

\* one POST /api/evaluate, and answer_comparison.evaluate_answer called on
\* the same question and answer
EvaluateInit ==
    /\ tables = EvaluateTables
    /\ lookup \in EvaluateCalls
    /\ LET question == FindQuestion(lookup.question_id)
       IN  IF question.found
           THEN /\ user_answer = lookup.answer
                /\ question_data = QuestionData(question.row)
                /\ use_advanced \in BOOLEAN
                /\ step = "validate"
           ELSE /\ user_answer = << >>
                /\ question_data = NoData
                /\ use_advanced = FALSE
                /\ step = "done"
    /\ verdict = NoVerdict
    /\ remote_calls = 0
    /\ remote_outcome = "none"
    /\ lexical_runs = 0
    /\ SubmitIdle
    /\ AssemblyIdle
    /\ personal = NoCall
    /\ ServiceIdle

EvaluateNext ==
    \/ evaluate_user_answer
    \/ LookupQueryRaises
    \/ GradeNext

SpecEvaluate == EvaluateInit /\ [][EvaluateNext]_vars

\* the bank the two grading endpoints are compared on: a stored answer with
\* leading and trailing whitespace, and one without
BothTables ==
    [c \in CategoryNames |->
        IF c = Os
        THEN { Asked(OsOne, << "q", "?" >>, << " ", "T", "C", "P", " " >>, Null) }
        ELSE IF c = Network
        THEN { Asked(QSeven, << "q", "?" >>, << "I", "P" >>, Null) }
        ELSE {}]

\* the answers sent to both: exact, other case, padded on either side,
\* wrong, empty
BothAnswers ==
    { << "T", "C", "P" >>,
      << "t", "c", "p" >>,
      << " ", "t", "c", "p", "\n" >>,
      << "I", "P" >>,
      << "\t", "i", "p" >>,
      << "i", "p", " " >>,
      << "y" >>,
      << >> }

BothCalls ==
    { [NoRequest EXCEPT !.pc = "called", !.handler = "evaluate",
                        !.question_id = id, !.answer = answer] :
          id \in { OsOne, QSeven, OsMissing }, answer \in BothAnswers }

\* one POST /api/evaluate, and submit_test requests whose body is the one
\* entry with the same question_id and answer
BothInit ==
    /\ GradeIdle
    /\ tables = BothTables
    /\ SubmitIdle
    /\ AssemblyIdle
    /\ personal = NoCall
    /\ lookup \in BothCalls
    /\ ServiceIdle

\* the loop of line 535 at the entry of the body
SubmitGradeSame(r) ==
    /\ requests[r].pc = "loop"
    /\ requests[r].i = 1
    /\ Grade(r, [question_id |-> lookup.question_id, answer |-> lookup.answer])
    /\ UNCHANGED << user_wrong_answers, next_id, recorded >>
    /\ UNCHANGED << grade_vars, tables, assembly_vars, query_vars,
                 service_vars >>

BothNext ==
    \/ evaluate_user_answer
    \/ LookupQueryRaises
    \/ \E r \in Requests :
           \/ SubmitBegin(r)
           \/ SubmitGradeSame(r)
           \/ SubmitWrite(r)
           \/ SubmitFinish(r)

SpecBoth == BothInit /\ [][BothNext]_vars

(***************************************************************************)
(* Properties of evaluate_answer, under SpecGrade                          *)
(***************************************************************************)
Graded == step = "done"
One == Frac(1, 1)
Zero == Frac(0, 1)

\* the call was given a question with a str answer and a str or absent text
HasStoredAnswer == question_data.present /\ question_data.answer.tag = "str"
StoredAnswer == question_data.answer.s

GradedCorrect ==
    verdict.kind = "verdict" /\ verdict.is_correct /\ FracEq(verdict.score, One)

\* C1: a non-empty user answer whose normalized form (lowercased,
\* punctuation stripped, whitespace collapsed and trimmed) equals that of
\* the stored answer is graded correct with score 1.0, whatever the question
\* text, the example, use_advanced and the remote call's outcome. The code
\* breaks it: step 1 compares the trimmed strings case-sensitively, and the
\* later steps can reject.
C1_NormalizedEqualIsCorrect ==
    ( /\ Graded
      /\ HasStoredAnswer
      /\ question_data.question.tag # "null"
      /\ user_answer # << >>
      /\ preprocess_text(user_answer) = preprocess_text(StoredAnswer) )
    => GradedCorrect

\* C2: for a stored answer of comma-separated items, also when the lexical
\* fallback decides (use_advanced false, or the remote call failed), the
\* user answer is graded correct only if it has as many items and each item
\* equals its counterpart after normalization. The code breaks it: an answer
\* step 4 does not accept goes on to step 6, which accepts reordered items.
C2_ListGradedByItems ==
    ( /\ Graded
      /\ HasStoredAnswer
      /\ IsListAnswer(StoredAnswer)
      /\ verdict.kind = "verdict"
      /\ verdict.by \in { "list", "lexical" }
      /\ verdict.is_correct )
    => SameItems(Items(StoredAnswer), Items(user_answer))

\* the options of the example that carry the stored answer, by number or by
\* normalized text
AnswerOptions ==
    { opt \in Options(ExampleText(question_data)) :
          /\ opt.ok
          /\ \/ StoredAnswer = opt.num
             \/ preprocess_text(StoredAnswer) = preprocess_text(opt.text) }

\* C5: when a line "<number>. <text>" of the example carries the stored
\* answer (the answer is the number, or the text after normalization), the
\* user answer is graded correct with score 1.0 when it is that number and
\* when it equals the text after normalization.
C5_OptionByNumberOrText ==
    ( /\ Graded
      /\ HasStoredAnswer
      /\ HasExample(question_data)
      /\ \E opt \in AnswerOptions :
             \/ user_answer = opt.num
             \/ preprocess_text(user_answer) = preprocess_text(opt.text) )
    => GradedCorrect

\* C5 witness: an answer given by the option's text in another letter case
\* than the option has, accepted by step 2
C5_Witness ==
    /\ Graded
    /\ HasStoredAnswer
    /\ HasExample(question_data)
    /\ verdict.by = "options"
    /\ \E opt \in AnswerOptions :
           /\ StoredAnswer = opt.num
           /\ user_answer # opt.text
           /\ Strip(user_answer) # opt.num
           /\ preprocess_text(user_answer) = preprocess_text(opt.text)

\* the premises of the format veto as C6 states them
VetoPremises ==
    /\ HasStoredAnswer
    /\ question_data.question.tag = "str"
    /\ Contains(QuestionText(question_data), AbbreviationPhrase)
    /\ HasUpperRun(StoredAnswer)
    /\ ~HasUpperRun(user_answer)
    /\ verdict.by \notin { "exact", "options" }

VetoVerdict ==
    /\ verdict.kind = "verdict"
    /\ ~verdict.is_correct
    /\ FracEq(verdict.score, Frac(1, 10))
    /\ remote_calls = 0
    /\ lexical_runs = 0

\* C6 as stated: the question text contains "영문 약어", the stored answer has
\* a run of two uppercase Latin letters, the user answer has none, neither
\* step 1 nor step 2 accepted: the verdict is incorrect with score 0.1 and
\* neither the remote grader nor the lexical fallback ran. An empty user
\* answer refutes it: the input validation returns score 0 first.
C6_FormatVetoAnyAnswer ==
    (Graded /\ VetoPremises) => VetoVerdict

\* C6 amended: the same, for a user answer that is not the empty string
C6_FormatVeto ==
    (Graded /\ VetoPremises /\ user_answer # << >>) => VetoVerdict

\* C6 witness: the veto decided the call
C6_Witness ==
    Graded /\ VetoPremises /\ user_answer # << >> /\ verdict.by = "veto"

RemoteFailed == remote_outcome \in { "transport_error", "unparsable" }

\* C7: when the remote grading call raised or its reply could not be
\* parsed, the call returns the verdict of the lexical fallback for its
\* inputs, and raises nothing.
C7_RemoteFailureFallsBack ==
    (Graded /\ RemoteFailed)
    => /\ verdict.kind = "verdict"
       /\ verdict = LexicalVerdict(user_answer, Strip(StoredAnswer))

\* C7 witness: an unparsable reply, and the fallback accepted the answer
C7_Witness ==
    /\ Graded
    /\ remote_outcome = "unparsable"
    /\ verdict.by = "lexical"
    /\ verdict.is_correct

\* C8: the call never raises; an empty or whitespace-only user answer, and
\* question data that is missing, has no answer key, or has a null answer
\* or a null question text, get is_correct false and score 0. The code
\* breaks it: a null answer raises AttributeError at line 199, a null
\* question raises TypeError at line 253, and a blank answer is graded.
C8_InvalidInputScoresZero ==
    /\ Graded => verdict.kind = "verdict"
    /\ ( /\ Graded
         /\ \/ Strip(user_answer) = << >>
            \/ ~question_data.present
            \/ question_data.answer.tag \in { "missing", "null" }
            \/ question_data.question.tag = "null" )
       => /\ verdict.kind = "verdict"
          /\ ~verdict.is_correct
          /\ FracEq(verdict.score, Zero)

\* C9: every verdict has a score in [0, 1], the remote one too. The code
\* breaks it: line 353 divides the service's score by 100 without a clamp.
C9_ScoreInUnitInterval ==
    (Graded /\ verdict.kind = "verdict")
    => FracGeq(verdict.score, Zero) /\ FracGeq(One, verdict.score)

\* the first of the four structural strategies that decides the call, in
\* the order exact match, enumerated option, format veto, ordered list
FirstStructural ==
    LET correct == CorrectAnswer(question_data)
    IN  IF ExactMatches(user_answer, correct) THEN "exact"
        ELSE IF /\ HasExample(question_data)
                /\ OptionMatches(user_answer, correct, ExampleText(question_data))
        THEN "options"
        ELSE IF /\ AbbreviationRequired(QuestionText(question_data), correct)
                /\ ~HasUpperRun(user_answer)
        THEN "veto"
        ELSE IF ListMatches(user_answer, correct) THEN "list"
        ELSE "none"

\* the call passed the input validation and raises nothing
Gradable ==
    /\ user_answer # << >>
    /\ HasStoredAnswer
    /\ question_data.question.tag # "null"

\* C25: the first strategy that decides wins, in the order exact match,
\* enumerated option, format veto, ordered list, remote grading, lexical
\* fallback; the remote grader is called at most once, and only when
\* use_advanced is true and no structural strategy decided; the lexical
\* fallback runs only when the remote call was disabled or failed.
C25_CascadeOrder ==
    /\ remote_calls <= 1 /\ lexical_runs <= 1
    /\ Gradable =>
         /\ remote_calls = 1 => use_advanced /\ FirstStructural = "none"
         /\ lexical_runs = 1 =>
                /\ FirstStructural = "none"
                /\ \/ ~use_advanced /\ remote_calls = 0
                   \/ remote_calls = 1 /\ RemoteFailed
         /\ Graded =>
                /\ verdict.kind = "verdict"
                /\ FirstStructural # "none" => verdict.by = FirstStructural
                /\ FirstStructural = "none" =>
                       /\ remote_calls = (IF use_advanced THEN 1 ELSE 0)
                       /\ verdict.by = (IF use_advanced /\ ~RemoteFailed
                                        THEN "remote" ELSE "lexical")
                       /\ lexical_runs = (IF verdict.by = "lexical" THEN 1 ELSE 0)

\* C25 witness: no structural strategy decided, the remote call failed and
\* the lexical fallback returned the verdict
C25_Witness ==
    /\ Graded /\ Gradable
    /\ FirstStructural = "none"
    /\ use_advanced /\ remote_calls = 1 /\ RemoteFailed
    /\ lexical_runs = 1 /\ verdict.by = "lexical"

\* C26: a verdict of the remote stage or of the lexical fallback has
\* is_correct true exactly when its score is at least 0.7. The code breaks
\* it for the remote stage: lines 345-358 return the is_correct of the
\* service's reply as it is and only rescale the score.
C26_CorrectIffScoreAtLeastAccept ==
    (Graded /\ verdict.kind = "verdict" /\ verdict.by \in { "remote", "lexical" })
    => (verdict.is_correct <=> FracGeq(verdict.score, Frac(AcceptNum, WeightScale)))

(***************************************************************************)
(* Properties of submit_test                                               *)
(***************************************************************************)
\* C3: whatever the interleaving of the requests, user_wrong_answers has at
\* most one row per (user, question). Under SpecSubmit the code breaks it:
\* two requests both SELECT no row and both INSERT.
C3_AtMostOneRowPerPair ==
    \A k \in RecordedKeys : Cardinality(WrongRows(k[1], k[2])) <= 1

\* the entries the requests of user u report incorrect for a question_id
\* that submit_test found
RECURSIVE CountMisses(_, _)
CountMisses(details, question_id) ==
    IF details = << >> THEN 0
    ELSE (IF Head(details).question_id = question_id
             /\ ~Head(details).is_correct
             /\ Head(details).feedback # "not_found"
          THEN 1 ELSE 0) + CountMisses(Tail(details), question_id)

RECURSIVE SumOver(_, _, _)
SumOver(rs, user, question_id) ==
    IF rs = {} THEN 0
    ELSE LET r == CHOOSE x \in rs : TRUE
         IN  (IF requests[r].user = user
              THEN CountMisses(requests[r].result_details, question_id)
              ELSE 0) + SumOver(rs \ { r }, user, question_id)

Misses(user, question_id) == SumOver(Requests, user, question_id)

\* exactly one row for the pair, with this attempt_count and user_answer
OneRow(user, question_id, count, answer) ==
    \E w \in WrongRows(user, question_id) :
        /\ WrongRows(user, question_id) = { w }
        /\ w.attempt_count = count
        /\ w.user_answer = answer

NoDuplicateIds(questions) ==
    \A i, j \in DOMAIN questions : questions[i].id = questions[j].id => i = j

\* the count a config asks of the category of a table
RequestedCount(category) ==
    IF category = Os THEN config.os_count
    ELSE IF category = Network THEN config.network_count
    ELSE IF category = Db THEN config.db_count
    ELSE IF category \in { BaseSql, HardSql } THEN config.sql_count
    ELSE IF category = Program THEN config.program_count
    ELSE IF category \in { AppTest, AppDefect } THEN config.app_count
    ELSE 0

RatiosInUnitInterval ==
    /\ FracGeq(config.basic_sql_ratio, Zero) /\ FracGeq(One, config.basic_sql_ratio)
    /\ FracGeq(config.app_test_ratio, Zero) /\ FracGeq(One, config.app_test_ratio)

\* C10: for a config with ratios in [0, 1] and a bank with unique ids, the
\* returned list has no duplicate id, at most os_count + network_count +
\* db_count + sql_count + program_count + app_count questions, and only
\* questions of categories with a positive count. The code breaks it on a
\* negative count, which the request model does not reject (C27): the
\* category is skipped and the sum of the counts is below the length.
C10_CustomTestWithinQuota ==
    (custom_test.returned /\ RatiosInUnitInterval)
    => /\ NoDuplicateIds(custom_test.questions)
       /\ Len(custom_test.questions)
              <= config.os_count + config.network_count + config.db_count
                 + config.sql_count + config.program_count + config.app_count
       /\ \A i \in DOMAIN custom_test.questions :
              RequestedCount(custom_test.questions[i].category) > 0


\* the rows of the returned list that come from the table of a category
RowsOf(category) ==
    { i \in DOMAIN custom_test.questions :
          custom_test.questions[i].category = category }

\* C11: when no query raised, for every category whose table is asked a
\* count c > 0 and holds a questions, the returned list has exactly
\* min(c, a) questions of the category, each a different question of the
\* table.
C11_QuotaOrAllAvailable ==
    (custom_test.returned /\ ~custom_test.raised)
    => \A category \in CategoryNames :
           TableCount(config, category) > 0
           => /\ Cardinality(RowsOf(category))
                    = Min(TableCount(config, category),
                          Cardinality(tables[category]))
              /\ \A i, j \in RowsOf(category) :
                     custom_test.questions[i].id = custom_test.questions[j].id
                     => i = j
              /\ \A i \in RowsOf(category) :
                     \E q \in tables[category] : q.id = custom_test.questions[i].id

\* C11 witness: a returned list for a config that asks db more rows than
\* it holds, os fewer than it holds, and base_sql a share of sql_count
C11_Witness ==
    /\ custom_test.returned /\ ~custom_test.raised
    /\ config.db_count = 2 /\ Cardinality(RowsOf(Db)) = 1
    /\ config.os_count = 1 /\ Cardinality(RowsOf(Os)) = 1
    /\ FirstShare(config.sql_count, config.basic_sql_ratio) = 1
    /\ Cardinality(RowsOf(BaseSql)) = 1


(***************************************************************************)
(* Properties of create_standard_test, under SpecStandard                  *)
(***************************************************************************)
HoldsStandardQuota ==
    \A c \in CategoryNames :
        Cardinality(tables[c]) >= TableCount(StandardConfig, c)

Answered == personal.pc = "done" /\ personal.status = 200

\* C13: whatever the history, wrong_ratio and total_questions, the list
\* create_personalized_test returns has no two questions with the same id
\* and at most total_questions questions.
C13_PersonalizedUniqueAndCapped ==
    Answered
    => /\ NoDuplicateIds(personal.questions)
       /\ Len(personal.questions) <= personal.total_questions

\* C13 witness: a returned list whose keyword questions held one question
\* twice before the pass of lines 802-808
C13_Witness ==
    /\ Answered
    /\ ~NoDuplicateIds(personal.result)
    /\ personal.filled # {}
    /\ Len(personal.questions) < Len(personal.result) + Cardinality(personal.filled)

\* the user of the call has no row in user_wrong_answers
NoHistory == \A w \in user_wrong_answers : w.user_id # personal.user_id

\* the questions of the returned list that come from a category
PersonalRowsOf(category) ==
    { i \in DOMAIN personal.questions :
          personal.questions[i].category = category }

\* C14: for a user without history, when every table holds at least
\* ceil(total_questions / 9) questions, the returned list has exactly
\* total_questions questions: floor(total_questions / 9) of every category
\* and one more of total_questions mod 9 categories. The code breaks it:
\* line 770 gives every category max(1, remaining_count // 9) and nothing
\* hands out the remainder, so total_questions = 10 returns 9 questions.
C14_EvenSplitFillsTotal ==
    ( /\ Answered
      /\ NoHistory
      /\ \A c \in CategoryNames :
             9 * Cardinality(tables[c]) >= personal.total_questions )
    => /\ Len(personal.questions) = personal.total_questions
       /\ \A c \in CategoryNames :
              Cardinality(PersonalRowsOf(c)) \in
                  { personal.total_questions \div 9,
                    personal.total_questions \div 9 + 1 }
       /\ Cardinality({ c \in CategoryNames :
                            Cardinality(PersonalRowsOf(c))
                                = personal.total_questions \div 9 + 1 })
              = personal.total_questions % 9

\* the rows of the user carry no keyword
NoKeywords ==
    \A w \in user_wrong_answers :
        w.user_id = personal.user_id => KeywordList(w.keywords) = << >>

\* C15: for a user without rows, or whose rows carry no keyword, what steps
\* 5 to 7 start from (the kept keyword questions, the selected ids and the
\* number of slots to fill) is what lines 733-762 compute for every other
\* wrong_ratio too; steps 5 to 7 do not read wrong_ratio, so the lists the
\* call can return are the same for every wrong_ratio.
C15_RatioIgnoredWithoutKeywords ==
    (personal.pc = "fill" /\ personal.categories = CategoryNames /\ NoKeywords)
    => \A ratio \in Ratios :
           \A keyword_questions \in
                  KeywordQuestions(<< >>, personal.total_questions, ratio, 1, 1) :
               KeywordShare(keyword_questions, personal.total_questions, ratio)
                   = [result |-> personal.result,
                      selected_ids |-> personal.selected_ids,
                      remaining_count |-> personal.remaining_count]

\* C15 witness: a call with wrong_ratio 1 for a user whose only row has no
\* keyword, about to fill every slot at random
C15_Witness ==
    /\ personal.pc = "fill" /\ personal.categories = CategoryNames
    /\ NoKeywords /\ ~NoHistory
    /\ personal.wrong_ratio = Frac(1, 1)
    /\ personal.remaining_count = personal.total_questions

\* C16: a call in which a repository query raised returns an empty list and
\* no error, in create_custom_test and in create_personalized_test. The
\* code breaks it in create_personalized_test: the except clause of lines
\* 815-820 raises HTTPException with status 500.
C16_QueryErrorGivesEmptyList ==
    /\ custom_test.raised
           => custom_test.returned /\ custom_test.questions = << >>
    /\ (personal.pc = "done" /\ personal.raised)
           => personal.status = 200 /\ personal.questions = << >>


(***************************************************************************)
(* Properties of the read handlers, under SpecLookup                       *)
(***************************************************************************)
Responded == lookup.pc = "done" /\ lookup.handler # "none" /\ ~lookup.raised

\* the tables that hold a question with the id of the request
TablesWithId == { c \in CategoryNames : RowsById(c, lookup.question_id) # {} }

\* the request names a question id, a category or a user that does not exist
NamesUnknown ==
    \/ lookup.handler = "get_question" /\ TablesWithId = {}
    \/ /\ lookup.handler \in { "get_questions", "get_random_question" }
       /\ lookup.category # << >>
       /\ lookup.category \notin CategoryNames
    \/ lookup.handler = "get_user_wrong_answers" /\ lookup.user_id \notin Users

\* C17: a request that names an unknown question id, an unknown category or
\* an unknown user is answered with status 404. The code breaks it: every
\* HTTPException of status 404 is raised inside a try block whose except
\* clause catches Exception and raises status 500 or, in get_questions,
\* returns an empty list.
C17_UnknownIsNotFound ==
    (Responded /\ NamesUnknown) => lookup.status = 404

\* C18: get_question returns the stored question whenever some table holds
\* a question with the id, also when the table the prefix names does not.
\* The code breaks it: with a prefix that names a category only the table of
\* that category is searched.
C18_GetQuestionFindsStored ==
    (Responded /\ lookup.handler = "get_question" /\ TablesWithId # {})
    => /\ lookup.status = 200
       /\ Len(lookup.body) = 1
       /\ \E c \in TablesWithId : lookup.body[1] \in tables[c]
       /\ lookup.body[1].id = lookup.question_id


(***************************************************************************)
(* Properties of the result of submit_test, under SpecSubmitLong           *)
(***************************************************************************)
CorrectDetails(details) ==
    Cardinality({ k \in DOMAIN details : details[k].is_correct })

\* C19: the result of submit_test has score = 5 * correct_count and
\* is_passed = (score >= 60); correct_count is the number of entries of
\* result_details with is_correct true and is at most total_questions; the
\* entry of an answer whose question is not found is incorrect with 0 points.
C19_ScoreAndPass ==
    \A r \in Requests :
        requests[r].pc = "done" =>
            LET result == Response(r)
                details == result.result_details
            IN  /\ result.score = 5 * result.correct_count
                /\ result.is_passed = (result.score >= 60)
                /\ result.correct_count = CorrectDetails(details)
                /\ result.correct_count <= result.total_questions
                /\ \A k \in DOMAIN details :
                       /\ details[k].points = IF details[k].is_correct THEN 5 ELSE 0
                       /\ ~FindQuestion(details[k].question_id).found
                              => ~details[k].is_correct /\ details[k].points = 0

\* a finished test of exactly 60 points, passed, with an answer whose
\* question was not found
C19_Witness ==
    \E r \in Requests :
        /\ requests[r].pc = "done"
        /\ Response(r).score = 60
        /\ Response(r).is_passed
        /\ \E k \in DOMAIN requests[r].result_details :
               ~FindQuestion(requests[r].result_details[k].question_id).found

(***************************************************************************)
(* The frame of an anonymous submit_test, under SpecSubmit                 *)
(***************************************************************************)
\* C20: no step of a request without user_id changes user_wrong_answers or
\* reads it: the request never holds a row of the table and never reaches
\* the UPDATE or INSERT, whatever its answers.
C20_AnonymousLeavesTable ==
    [][\A r \in Requests :
           (requests'[r].user_id = NoUser /\ requests'[r] # requests[r])
           => /\ user_wrong_answers' = user_wrong_answers
              /\ next_id' = next_id
              /\ requests'[r].pc # "write"
              /\ requests'[r].existing_wrong = NoRow]_vars

\* a finished anonymous request with a wrong answer to a stored question,
\* and a table without rows
C20_Witness ==
    \E r \in Requests :
        /\ requests[r].pc = "done"
        /\ requests[r].user_id = NoUser
        /\ \E k \in DOMAIN requests[r].result_details :
               /\ ~requests[r].result_details[k].is_correct
               /\ FindQuestion(requests[r].result_details[k].question_id).found
        /\ user_wrong_answers = {}


(***************************************************************************)
(* Properties of POST /api/evaluate, under SpecEvaluate                    *)
(***************************************************************************)
Evaluated ==
    /\ lookup.handler = "evaluate" /\ lookup.pc = "done" /\ lookup.status = 200

\* C21: the verdict of POST /api/evaluate has the is_correct and the score
\* of answer_comparison.evaluate_answer for the same question and answer.
\* The code breaks it: the router calls the evaluate_answer of api.py lines
\* 17-27, a comparison of the lowered and stripped strings.
C21_EndpointReturnsCascadeVerdict ==
    (Evaluated /\ step = "done" /\ verdict.kind = "verdict")
    => /\ lookup.body[1].is_correct = verdict.is_correct
       /\ FracEq(lookup.body[1].score, RoundHundredths(verdict.score))


(***************************************************************************)
(* Properties of the keyword extraction adapter, under SpecKeywords        *)
(***************************************************************************)
\* C22: a call of extract_key_phrases or extract_keywords returns a list of
\* at most 5 keywords and raises nothing, whatever the two remote calls do.
\* The code breaks the cap: extract_key_phrases returns the list of
\* filter_keywords_with_openai as it is, and extract_keywords returns every
\* word of extract_core_keywords when the key-phrase call fails.
C22_AtMostFiveKeywords ==
    (extraction.pc = "done" /\ extraction.fn # "none")
    => ~extraction.raised /\ Len(extraction.result) <= 5


(***************************************************************************)
(* The list create_personalized_test assembles, under SpecPersonalized     *)
(***************************************************************************)
\* the list of line 796, before the shuffle and the pass of lines 802-808
Assembled == personal.result \o SeqOf(personal.filled)

\* C23: the list assembled from the keyword stage and the random fills has
\* no id twice. The code breaks it: the keyword stage extends
\* keyword_questions with the matches of every keyword and consults no set
\* of ids, so a question that matches two keywords is listed twice.
C23_AssembledHasNoDuplicateId ==
    (personal.pc = "fill" \/ (personal.pc = "done" /\ personal.status = 200))
    => \A i, j \in DOMAIN Assembled :
           i # j => Assembled[i].id # Assembled[j].id


(***************************************************************************)
(* The misses submit_test reports and the rows it keeps                    *)
(***************************************************************************)
\* the entries a request reports with is_correct false for a question_id,
\* found or not
RECURSIVE CountReported(_, _)
CountReported(details, question_id) ==
    IF details = << >> THEN 0
    ELSE (IF Head(details).question_id = question_id /\ ~Head(details).is_correct
          THEN 1 ELSE 0) + CountReported(Tail(details), question_id)

RECURSIVE ReportedOver(_, _, _)
ReportedOver(rs, user, question_id) ==
    IF rs = {} THEN 0
    ELSE LET r == CHOOSE x \in rs : TRUE
         IN  (IF requests[r].user = user
              THEN CountReported(requests[r].result_details, question_id)
              ELSE 0) + ReportedOver(rs \ { r }, user, question_id)

\* attempt_count summed over a set of rows
RECURSIVE AttemptSum(_)
AttemptSum(rows) ==
    IF rows = {} THEN 0
    ELSE LET w == CHOOSE x \in rows : TRUE
         IN  w.attempt_count + AttemptSum(rows \ { w })

\* C24, under SpecSubmitSeq: once the requests of an existing user have
\* ended, every question_id they reported with is_correct false has a row of
\* the user whose attempt_count is the number of those reports. The code
\* breaks it: an answer whose question is not found is reported incorrect
\* (lines 559-568) and the loop continues before the lines that store a miss.
C24_ReportedMissIsRecorded ==
    NoneInFlight
    => \A k \in RecordedKeys :
           LET reported == ReportedOver(Requests, k[1], k[2])
           IN  reported >= 1
               => /\ WrongRows(k[1], k[2]) # {}
                  /\ AttemptSum(WrongRows(k[1], k[2])) = reported

\* C29, under SpecSubmit: once every request has committed, the
\* attempt_count summed over the rows of a (user, question) pair is the
\* number of misses committed for the pair. The code breaks it: the UPDATE
\* of lines 581-585 writes the attempt_count the request loaded plus one, so
\* of two requests that loaded the same row one increment is lost.
C29_NoIncrementLost ==
    NoneInFlight
    => \A k \in RecordedKeys :
           AttemptSum(WrongRows(k[1], k[2])) = recorded[k].count


(***************************************************************************)
(* create_custom_test on malformed configs, under SpecAnyConfig            *)
(***************************************************************************)
WellFormed ==
    /\ \A count \in { config.os_count, config.network_count, config.db_count,
                      config.sql_count, config.program_count, config.app_count } :
           count >= 0
    /\ RatiosInUnitInterval

\* C27: a config with a negative count or a ratio outside [0, 1] is rejected
\* and gets no list; the returned list has at most sql_count questions of
\* base_sql and hard_sql together and at most app_count of app_test and
\* app_defect together. The code breaks it: TestConfigRequest declares no
\* bound, the handler checks none, and a ratio above 1 asks base_sql (or
\* app_test) more than the whole count.
C27_MalformedConfigRejected ==
    custom_test.returned
    => /\ WellFormed
       /\ Cardinality(RowsOf(BaseSql)) + Cardinality(RowsOf(HardSql))
              <= config.sql_count
       /\ Cardinality(RowsOf(AppTest)) + Cardinality(RowsOf(AppDefect))
              <= config.app_count


(***************************************************************************)
(* The study-completion credit, under SpecWork                             *)
(***************************************************************************)
Credited(c) == work.calls[c].message = "completed"

\* C28: a user gets at most one study-completion credit per calendar day:
\* of two calls of update_work_status that set last_work_date to the same
\* day, at most one reports the study completed, also when they run at the
\* same time. The code breaks it: the test of line 63 reads the row the
\* call loaded, and two calls that both loaded it before either committed
\* both pass the test, both write and both report the credit.
C28_OneCreditPerDay ==
    \A c, d \in WorkCalls :
        (c # d /\ Credited(c) /\ Credited(d))
        => Date(work.calls[c].stamp) # Date(work.calls[d].stamp)


(***************************************************************************)
(* The two grading endpoints, under SpecBoth                               *)
(***************************************************************************)
\* the request has returned the detail of its one entry
Submitted(r) == requests[r].pc = "done" /\ requests[r].result_details # << >>

\* C30: for a stored question and an answer, the is_correct of the item in
\* the response of submit_test equals the is_correct POST /api/evaluate
\* returns for the same question_id and answer, also when the stored or
\* the submitted answer has leading or trailing whitespace. The code
\* breaks it: line 571 compares the stripped submitted answer with the
\* stored answer as it is, lines 17-27 strip both.
C30_EndpointsAgree ==
    \A r \in Requests :
        (Submitted(r) /\ Evaluated)
        => requests[r].result_details[1].is_correct = lookup.body[1].is_correct

====
